---------------------------- MODULE Spec2Model ----------------------------
(***************************************************************************)
(* A model of super-request: the multipart/form-data streaming parser      *)
(* (form_data.ts), and the body multiplexer and size guard of SuperRequest *)
(* (super_request.ts).                                                     *)
(*                                                                         *)
(* Bytes are integers 0..255, byte arrays are sequences, and the indices   *)
(* of the source (0-based) are kept: At(b, i) is b[i] of the source.       *)
(* Strings are kept as the sequence of their bytes: every text of the      *)
(* model is ASCII, on which TextDecoder and TextEncoder are the identity.  *)
(***************************************************************************)
EXTENDS Integers, Sequences, FiniteSets, TLC

\* ------------------------------------------------------------------------
\* Program constants of form_data.ts
\* ------------------------------------------------------------------------
BUFFER_LEN == 32768
MAX_BOUNDARY_LEN == 100
MAX_DECORATOR_LEN == 100

C_EQ == 61
C_COLON == 58
C_SEMICOLON == 59
C_CR == 13
C_LF == 10
C_SPACE == 32
C_TAB == 9
C_QT == 34
C_BACKSLASH == 92
C_HYPHEN == 45

\* ------------------------------------------------------------------------
\* Byte arrays
\* ------------------------------------------------------------------------
Min(S) == CHOOSE x \in S : \A y \in S : x <= y
Max(S) == CHOOSE x \in S : \A y \in S : x >= y
MinOf(a, b) == IF a <= b THEN a ELSE b
MaxOf(a, b) == IF a >= b THEN a ELSE b

\* b[i]. A sequence holds an array up to the last byte ever stored in it: the
\* bytes behind are the zeroes the Uint8Array was made with. (An index that
\* is not in the array reads as undefined; like 0, it equals no byte that
\* the parser compares with.)
At(b, i) == IF i >= 0 /\ i < Len(b) THEN b[i + 1] ELSE 0

\* b.subarray(from, to), as a value
Sub(b, from, to) ==
    IF to <= from THEN << >> ELSE SubSeq(b, from + 1, MinOf(to, Len(b)))

\* The array b after b.set(src) (at offset 0): src, then what b held behind it
SetAt0(b, src) == src \o Sub(b, Len(src), Len(b))

\* The array b after b.copyWithin(0, from, to)
CopyWithin0(b, from, to) == SetAt0(b, Sub(b, from, to))

\* The array b after n bytes were stored at index at
StoreAt(b, at, chunk) == Sub(b, 0, at) \o chunk \o Sub(b, at + Len(chunk), Len(b))

\* haystack.subarray(0, end).indexOf(c, from)
IndexOfByte(b, end, c, from) ==
    LET hits == {p \in from..(end - 1) : At(b, p) = c}
    IN  IF hits = {} THEN -1 ELSE Min(hits)

\* from + b.subarray(from, to).lastIndexOf(c), or -1
LastIndexOfByte(b, from, to, c) ==
    LET hits == {p \in from..(to - 1) : At(b, p) = c}
    IN  IF hits = {} THEN -1 ELSE Max(hits)

bufferIndexOf(haystack, haystackStart, haystackEnd, needle) ==
    LET last == haystackEnd - Len(needle)
        hits == {p \in haystackStart..last :
                    \A k \in 0..(Len(needle) - 1) : At(haystack, p + k) = needle[k + 1]}
    IN  IF hits = {} THEN -1 ELSE Min(hits)

bufferIndexOfNl(haystack, haystackLen, needle) ==
    LET hits == {i \in Len(needle)..(haystackLen - 2) :
                    /\ At(haystack, i) = C_CR
                    /\ At(haystack, i + 1) = C_LF
                    /\ \A k \in 0..(Len(needle) - 1) :
                          At(haystack, i - Len(needle) + k) = needle[k + 1]}
    IN  IF hits = {} THEN -1 ELSE Min(hits) - Len(needle)

bufferIndexOfOneOf3(b, start, end, b0, b1, b2) ==
    LET hits == {p \in start..(end - 1) : At(b, p) \in {b0, b1, b2}}
    IN  IF hits = {} THEN -1 ELSE Min(hits)

IsSpaceByte(c) == c \in {C_SPACE, C_CR, C_LF, C_TAB}

bufferTrim(b) ==
    LET n     == Len(b)
        nonWs == {p \in 0..(n - 1) : ~IsSpaceByte(At(b, p))}
    IN  IF nonWs = {} THEN << >> ELSE Sub(b, Min(nonWs), Max(nonWs) + 1)

\* String.prototype.toLowerCase on ASCII
ToLowerCase(s) == [k \in 1..Len(s) |-> IF s[k] \in 65..90 THEN s[k] + 32 ELSE s[k]]

\* s.replaceAll(<<a, b>>, <<r>>): a two-byte pattern replaced by one byte,
\* leftmost first, the matches not overlapping
RECURSIVE ReplaceAll2(_, _, _, _)
ReplaceAll2(s, a, b, r) ==
    IF Len(s) < 2 THEN s
    ELSE IF s[1] = a /\ s[2] = b
         THEN <<r>> \o ReplaceAll2(Sub(s, 2, Len(s)), a, b, r)
         ELSE <<s[1]>> \o ReplaceAll2(Tail(s), a, b, r)

\* .replaceAll('\\"', '"').replaceAll('\\\\', '\\')
Unescape(s) ==
    ReplaceAll2(ReplaceAll2(s, C_BACKSLASH, C_QT, C_QT), C_BACKSLASH, C_BACKSLASH, C_BACKSLASH)

StrContentDisposition == <<99, 111, 110, 116, 101, 110, 116, 45, 100, 105, 115, 112, 111, 115, 105, 116, 105, 111, 110>>
StrContentType == <<99, 111, 110, 116, 101, 110, 116, 45, 116, 121, 112, 101>>
StrName == <<110, 97, 109, 101>>
StrFilename == <<102, 105, 108, 101, 110, 97, 109, 101>>


\* ------------------------------------------------------------------------
\* State
\* ------------------------------------------------------------------------
VARIABLES
    body,           \* the bytes of the body stream given to parseFormData
    boundaryBytes,  \* encoder.encode(boundary)
    input,          \* what body was written from: the parts (none: << >>),
                    \* the length of the preamble, and wellFormed: body is
                    \* the complete, well-formed encoding of the parts
    g,              \* the generator parseFormData(body, charset, boundary):
                    \* its local variables, its position, the body reader
                    \* and the stream of the file it has yielded
    lastOp,         \* the operation that made the last step
    canon,          \* the consumer has so far read every file up to its end
                    \* or its failure, with views of BUFFER_LEN bytes
    rq              \* a SuperRequest whose body is read through one accessor:
                    \* its body, its lengthLimit, and the stream made by
                    \* #getBodyStream with the source behind it

vars == <<body, boundaryBytes, input, g, lastOp, canon, rq>>

\* ------------------------------------------------------------------------
\* parseFormData: the generator's variables after construction.
\*   pc        where the generator is suspended: "start" (not started),
\*             "preamble", "scan", "emptyLF", "valueLF", "field", "epilogue"
\*             (at the await of a read in that place), "yielded", "done"
\*             (returned), "failed" (has thrown err)
\*   fop       the operation of the file's stream that awaits a read of the
\*             body inside readFieldPart: "idle", "read", "cancel"
\*   mode      the argument of the running readFieldPart: "none" (no view),
\*             "view" (the view of a reader of the file's stream, of
\*             viewLen bytes), "self" (the parser's own buffer, from cancel)
\*   inView    useBuffer is the view (the data was moved into it)
\*   fstream   the yielded file's stream: "none", "open", "closed" (it has
\*             reported its end), "cancelled", "errored"
\*   pos       the bytes of body the reader has delivered
\*   entries   what the consumer has got: the entries yielded, each file
\*             with the bytes read from its stream so far
\* ------------------------------------------------------------------------
GenInit ==
    [ pc |-> "start", err |-> "", buffer |-> << >>, bufferStart |-> 0, bufferEnd |-> 0,
      state |-> "HEADER", headerName |-> << >>, name |-> << >>, filename |-> << >>,
      contentTypeFull |-> << >>, i |-> 0, scanFrom |-> 0, lastPart |-> << >>,
      expectedEof |-> FALSE, value |-> << >>, readComplete |-> FALSE,
      fop |-> "idle", mode |-> "none", inView |-> FALSE, view |-> << >>, viewLen |-> 0,
      r |-> "", part |-> << >>, out |-> << >>, thrown |-> "",
      fstream |-> "none", ferr |-> "", pos |-> 0, cancelled |-> FALSE, locked |-> FALSE,
      entries |-> << >> ]

\* ------------------------------------------------------------------------
\* readFieldPart(view?)
\* ------------------------------------------------------------------------
UseBuffer(s) == IF s.inView THEN s.view ELSE s.buffer
UseBufferLen(s) == IF s.inView THEN s.viewLen ELSE BUFFER_LEN
ViewLength(s) == IF s.mode = "self" THEN BUFFER_LEN ELSE s.viewLen
\* useBuffer == view
UseBufferIsView(s) == s.inView \/ s.mode = "self"

\* return result: part is the array returned, out the bytes that the caller's
\* view holds at [0, part.length)
Ret(s, result, viewBytes) ==
    [s EXCEPT !.r = "ret", !.part = result, !.out = viewBytes, !.inView = FALSE, !.view = << >>]

Throw(s, e) ==
    [s EXCEPT !.r = "throw", !.thrown = e, !.inView = FALSE, !.view = << >>]

\* buffer.set(useBuffer.subarray(bufferStart, bufferEnd)); bufferEnd -= bufferStart;
\* bufferStart = 0; return result
MoveBackRet(s, result) ==
    LET rest == Sub(UseBuffer(s), s.bufferStart, s.bufferEnd)
    IN  IF Len(rest) > BUFFER_LEN
        THEN Throw(s, "RangeError")
        ELSE Ret([s EXCEPT !.buffer = SetAt0(s.buffer, rest),
                           !.bufferEnd = s.bufferEnd - s.bufferStart,
                           !.bufferStart = 0],
                 result,
                 IF s.inView THEN Sub(s.view, 0, Len(result)) ELSE result)

\* The boundary was found at i
RFPFound(s, i) ==
    LET ub == UseBuffer(s)
        bl == Len(boundaryBytes)
        scanDecoratorFrom == MaxOf(s.bufferStart, s.scanFrom - MAX_DECORATOR_LEN)
        endField == LastIndexOfByte(ub, scanDecoratorFrom, i, C_CR)
        si == [s EXCEPT !.i = i]
    IN  IF endField = -1
        THEN Throw(si, "Invalid multipart body")
        ELSE
          LET eof    == At(ub, i + bl) = C_HYPHEN /\ At(ub, i + bl + 1) = C_HYPHEN
              result == Sub(ub, s.bufferStart, endField)
              s1     == [si EXCEPT !.expectedEof = eof, !.bufferStart = i + bl + 2]
          IN  IF s.mode = "none" THEN Ret(s1, result, << >>)
              ELSE IF ~UseBufferIsView(s)
              THEN IF Len(result) > ViewLength(s)
                   THEN Ret([s1 EXCEPT !.lastPart = Sub(result, ViewLength(s), Len(result))],
                            Sub(result, 0, ViewLength(s)), Sub(result, 0, ViewLength(s)))
                   ELSE Ret(s1, result, result)
              ELSE MoveBackRet(s1, result)

\* if (view && useBuffer!=view) {view.set(...); useBuffer = view; ...}; await read(useBuffer)
RFPAwait(s) ==
    IF s.mode = "view" /\ ~s.inView
    THEN LET data == Sub(s.buffer, s.bufferStart, s.bufferEnd)
         IN  IF Len(data) > s.viewLen
             THEN Throw(s, "RangeError")
             ELSE [s EXCEPT !.r = "await", !.view = data, !.inView = TRUE,
                            !.scanFrom = s.scanFrom - s.bufferStart,
                            !.bufferEnd = s.bufferEnd - s.bufferStart,
                            !.bufferStart = 0]
    ELSE [s EXCEPT !.r = "await"]

\* The boundary is not in useBuffer[scanFrom .. bufferEnd-2]
RFPNotFound(s) ==
    LET ub          == UseBuffer(s)
        bl          == Len(boundaryBytes)
        scanFrom    == MaxOf(s.bufferStart, s.bufferEnd - 2 - bl)
        canReturnTo == scanFrom - MAX_DECORATOR_LEN
        s0          == [s EXCEPT !.scanFrom = scanFrom]
    IN  IF s.mode # "none" /\ canReturnTo - s.bufferStart >= ViewLength(s)
        THEN LET to     == MinOf(canReturnTo, s.bufferStart + ViewLength(s))
                 result == Sub(ub, s.bufferStart, to)
                 s1     == [s0 EXCEPT !.bufferStart = to]
             IN  IF ~UseBufferIsView(s) THEN Ret(s1, result, result)
                 ELSE MoveBackRet(s1, result)
        ELSE IF s.bufferStart * 2 > UseBufferLen(s)
        THEN LET moved == CopyWithin0(ub, s.bufferStart, s.bufferEnd)
             IN  RFPAwait([s0 EXCEPT !.buffer = IF s.inView THEN @ ELSE moved,
                                     !.view = IF s.inView THEN Sub(moved, 0, s.bufferEnd - s.bufferStart) ELSE @,
                                     !.scanFrom = scanFrom - s.bufferStart,
                                     !.bufferEnd = s.bufferEnd - s.bufferStart,
                                     !.bufferStart = 0])
        ELSE IF (canReturnTo - s.bufferStart) * 2 >= UseBufferLen(s)
        THEN LET result == Sub(ub, s.bufferStart, canReturnTo)
                 s1     == [s0 EXCEPT !.bufferStart = canReturnTo]
             IN  IF ~UseBufferIsView(s) THEN Ret(s1, result, result)
                 ELSE MoveBackRet(s1, result)
        ELSE RFPAwait(s0)

\* One turn of the loop of readFieldPart, from the search of the boundary to
\* the return, the throw or the await of the next read
RFPLoop(s) ==
    LET i == bufferIndexOf(UseBuffer(s), s.scanFrom, s.bufferEnd - 2, boundaryBytes)
    IN  IF i # -1 THEN RFPFound(s, i) ELSE RFPNotFound([s EXCEPT !.i = -1])

\* readFieldPart(view): mode and len describe the view
readFieldPart(s, mode, len) ==
    LET s0 == [s EXCEPT !.mode = mode, !.viewLen = len, !.inView = FALSE, !.view = << >>]
    IN  IF s.i # -1
        THEN IF mode = "none"
             THEN Ret([s0 EXCEPT !.lastPart = << >>], s.lastPart, << >>)
             ELSE LET result == Sub(s.lastPart, 0, MinOf(Len(s.lastPart), ViewLength(s0)))
                  IN  Ret([s0 EXCEPT !.lastPart = Sub(s.lastPart, Len(result), Len(s.lastPart)),
                                     !.buffer = IF mode = "self" THEN SetAt0(s.buffer, result) ELSE @],
                          result, result)
        ELSE RFPLoop(s0)

\* The read awaited in readFieldPart has delivered chunk: bufferEnd += value.byteLength,
\* and the loop goes on
RFPResume(s, chunk) ==
    RFPLoop([s EXCEPT !.buffer = IF s.inView THEN @ ELSE StoreAt(s.buffer, s.bufferEnd, chunk),
                      !.view = IF s.inView THEN Sub(s.view, 0, s.bufferEnd) \o chunk ELSE @,
                      !.bufferEnd = s.bufferEnd + Len(chunk)])

\* ------------------------------------------------------------------------
\* parseFormData: the loop over the header lines and the parts
\* ------------------------------------------------------------------------
Fail(s, e) == [s EXCEPT !.pc = "failed", !.err = e, !.locked = FALSE]

\* yield {name, value} of a regular field
YieldField(s) ==
    [s EXCEPT !.pc = "yielded", !.fstream = "none",
              !.entries = Append(@, [name |-> s.name, isFile |-> FALSE, value |-> s.value,
                                     filename |-> << >>, type |-> << >>, content |-> << >>])]

\* yield {name, value: new SuperFile(new RdStream({read, cancel}), filename, contentTypeFull)}
YieldFile(s) ==
    [s EXCEPT !.pc = "yielded", !.fstream = "open", !.readComplete = FALSE, !.ferr = "",
              !.entries = Append(@, [name |-> s.name, isFile |-> TRUE, value |-> << >>,
                                     filename |-> s.filename, type |-> s.contentTypeFull,
                                     content |-> << >>])]

\* while (true) {const part = await readFieldPart(); if (part.length == 0) break;
\* value += decoder.decode(part, {stream: true})}; yield {name, value}
\* t is the state in which a readFieldPart() has ended or awaits a read.
RECURSIVE FieldLoop(_)
FieldLoop(t) ==
    IF t.r = "await" THEN [t EXCEPT !.pc = "field"]
    ELSE IF t.r = "throw" THEN Fail(t, t.thrown)
    ELSE IF Len(t.part) = 0 THEN YieldField(t)
    ELSE FieldLoop(readFieldPart([t EXCEPT !.value = @ \o t.part], "none", 0))

\* (variant: every part taken for a regular field)
BodyStartAllFields(s) ==
    FieldLoop(readFieldPart([s EXCEPT !.scanFrom = s.bufferStart, !.lastPart = << >>,
                                      !.expectedEof = FALSE, !.i = -1, !.value = << >>],
                            "none", 0))

\* After the empty line that ends the headers: the body of the part
BodyStart(s) ==
    LET s0 == [s EXCEPT !.scanFrom = s.bufferStart, !.lastPart = << >>,
                        !.expectedEof = FALSE, !.i = -1, !.value = << >>]
    IN  IF s.filename = << >>
        THEN FieldLoop(readFieldPart(s0, "none", 0))
        ELSE YieldFile(s0)

\* while (buffer[++i2] === C_SPACE);
SkipSpaces(b, i2) == Min({k \in (i2 + 1)..(Len(b) + 1) : At(b, k) # C_SPACE})

\* while (buffer[i3-1] === C_BACKSLASH) i3 = buffer.subarray(0, i).indexOf(C_QT, i3+1)
RECURSIVE ClosingQuote(_, _, _)
ClosingQuote(b, i, i3) ==
    IF At(b, i3 - 1) = C_BACKSLASH
    THEN ClosingQuote(b, i, IndexOfByte(b, i, C_QT, i3 + 1))
    ELSE i3

\* The loop over the parameters of Content-Disposition, from the index i2 of
\* the ';' before a parameter; i is the index of the CR that ends the line.
\* Gives the state with name and filename set.
RECURSIVE DispositionParams(_, _, _)
DispositionParams(s, i, i2) ==
    LET b    == s.buffer
        i2a  == SkipSpaces(b, i2)
        eq   == IndexOfByte(b, i, C_EQ, i2a)
        field == Sub(b, i2a, eq)
        i2b  == eq + 2
        qt   == ClosingQuote(b, i, IndexOfByte(b, i, C_QT, i2b))
        text == Unescape(Sub(b, i2b, qt))
    IN  IF eq = -1 THEN s
        ELSE IF At(b, eq + 1) # C_QT THEN s
        ELSE IF qt = -1 THEN s
        ELSE DispositionParams(
                 [s EXCEPT !.name = IF field = StrName THEN text ELSE @,
                           !.filename = IF field # StrName /\ field = StrFilename THEN text ELSE @],
                 i, qt + 1)

\* The header value that ends at the CR at i
HeaderValue(s, i) ==
    IF s.headerName = StrContentDisposition
    THEN LET i2 == IndexOfByte(s.buffer, i, C_SEMICOLON, s.bufferStart)
         IN  IF i2 = -1 THEN Fail(s, "Invalid Content-Disposition header")
             ELSE DispositionParams(s, i, i2)
    ELSE IF s.headerName = StrContentType
    THEN [s EXCEPT !.contentTypeFull = bufferTrim(Sub(s.buffer, s.bufferStart, i))]
    ELSE s

RECURSIVE HeaderLoop(_)

\* After the "\r" of an empty line, at i where the "\n" is expected
EmptyLineLf(s, i) ==
    IF At(s.buffer, i) # C_LF THEN Fail(s, "Invalid header")
    ELSE BodyStart([s EXCEPT !.bufferStart = i + 1])

\* (variant: a "\r" of a header value without its "\n" is reported as the end
\* of the stream is)
ValueLfIncomplete(s, i) ==
    IF At(s.buffer, i) # C_LF THEN Fail(s, "Incomplete multipart body")
    ELSE HeaderLoop([s EXCEPT !.bufferStart = i + 1, !.headerName = << >>, !.state = "HEADER"])

\* After the "\r" that ends a header value, at i where the "\n" is expected
ValueLf(s, i) ==
    IF At(s.buffer, i) # C_LF THEN Fail(s, "Invalid header")
    ELSE HeaderLoop([s EXCEPT !.bufferStart = i + 1, !.headerName = << >>, !.state = "HEADER"])

\* if (i >= bufferEnd) {bufferStart = bufferEnd = i = 0; await read(buffer)}
AwaitLf(s, i, at) ==
    IF i >= s.bufferEnd
    THEN [s EXCEPT !.bufferStart = 0, !.bufferEnd = 0, !.i = 0, !.pc = at]
    ELSE IF at = "emptyLF" THEN EmptyLineLf(s, i) ELSE ValueLf(s, i)

\* 2. Read header name or value: i is the index of the COLON, CR or LF found
HeaderAt(s, i) ==
    IF s.state = "HEADER"
    THEN IF i # s.bufferStart
         THEN IF At(s.buffer, i) # C_COLON THEN Fail(s, "Invalid header")
              ELSE HeaderLoop([s EXCEPT
                       !.headerName = ToLowerCase(bufferTrim(Sub(s.buffer, s.bufferStart, i))),
                       !.bufferStart = i + 1, !.state = "HEADER_VALUE"])
         ELSE IF At(s.buffer, i) # C_CR THEN Fail(s, "Invalid header")
              ELSE AwaitLf(s, i + 1, "emptyLF")
    ELSE LET s1 == HeaderValue(s, i)
         IN  IF s1.pc = "failed" THEN s1 ELSE AwaitLf(s1, i + 1, "valueLF")

\* 1. Set "i" to index of COLON, CR or LF, depending on "state": the search from i
HeaderScan(s, i) ==
    LET j == IF s.state = "HEADER"
             THEN bufferIndexOfOneOf3(s.buffer, i, s.bufferEnd, C_COLON, C_CR, C_LF)
             ELSE IndexOfByte(s.buffer, s.bufferEnd, C_CR, i)
    IN  IF j # -1 THEN HeaderAt(s, j)
        ELSE IF (s.bufferEnd - s.bufferStart) * 2 > BUFFER_LEN
        THEN IF s.bufferStart = 0 THEN Fail(s, "Header is too long")
             ELSE [s EXCEPT !.buffer = CopyWithin0(s.buffer, s.bufferStart, s.bufferEnd),
                            !.bufferEnd = s.bufferEnd - s.bufferStart, !.bufferStart = 0,
                            !.i = s.bufferEnd - s.bufferStart, !.pc = "scan"]
        ELSE [s EXCEPT !.i = s.bufferEnd, !.pc = "scan"]

HeaderLoop(s) == HeaderScan(s, s.bufferStart)

\* (variant: the bytes behind the last boundary are dropped unseen)
EpilogueUnchecked(s) ==
    [s EXCEPT !.bufferStart = 0, !.bufferEnd = 0, !.pc = "epilogue"]

\* if (expectedEof): the bytes behind the last boundary, up to the next read
Epilogue(s) ==
    IF \E p \in s.bufferStart..(s.bufferEnd - 1) : ~IsSpaceByte(At(s.buffer, p))
    THEN Fail(s, "Invalid data after end of multipart body")
    ELSE [s EXCEPT !.bufferStart = 0, !.bufferEnd = 0, !.pc = "epilogue"]

\* (variant: the generator goes on without the check of readComplete)
AfterYieldUnchecked(s) ==
    LET s0 == [s EXCEPT !.name = << >>, !.contentTypeFull = << >>, !.filename = << >>]
    IN  IF s.expectedEof THEN Epilogue(s0) ELSE HeaderLoop(s0)

\* The generator resumed behind its yield
AfterYield(s) ==
    IF s.entries[Len(s.entries)].isFile /\ ~s.readComplete
    THEN Fail(s, "Please, read the whole file stream, or cancel it, before reading next form field")
    ELSE LET s0 == [s EXCEPT !.name = << >>, !.contentTypeFull = << >>, !.filename = << >>]
         IN  IF s.expectedEof THEN Epilogue(s0) ELSE HeaderLoop(s0)

\* (variant: the limit of the boundary's length taken one too low)
StartOffByOne(s) ==
    IF Len(boundaryBytes) = 0 \/ Len(boundaryBytes) >= MAX_BOUNDARY_LEN
    THEN Fail([s EXCEPT !.locked = TRUE], "Invalid boundary")
    ELSE [s EXCEPT !.locked = TRUE, !.pc = "preamble"]

\* The generator started: the check of the boundary, up to the first read
Start(s) ==
    IF Len(boundaryBytes) = 0 \/ Len(boundaryBytes) > MAX_BOUNDARY_LEN
    THEN Fail([s EXCEPT !.locked = TRUE], "Invalid boundary")
    ELSE [s EXCEPT !.locked = TRUE, !.pc = "preamble"]

\* Skip anything before first boundary: after a read
Preamble(s) ==
    LET i == bufferIndexOfNl(s.buffer, s.bufferEnd, boundaryBytes)
        k == s.bufferEnd - Len(boundaryBytes) - (2 - 1)
    IN  IF i # -1
        THEN HeaderLoop([s EXCEPT !.bufferStart = i + Len(boundaryBytes) + 2])
        ELSE IF k > 0
        THEN [s EXCEPT !.buffer = CopyWithin0(s.buffer, k, s.bufferEnd), !.bufferEnd = s.bufferEnd - k]
        ELSE s

\* ------------------------------------------------------------------------
\* The body reader (reader = body.getReader({mode: 'byob'})) and the reads
\* ------------------------------------------------------------------------
\* The bytes of body that the reader has not delivered
Remaining(s) == IF s.cancelled THEN 0 ELSE Len(body) - s.pos

\* The length of the view that the awaited read was given:
\* buffer.subarray(bufferEnd), and the whole buffer in the epilogue
ReadSpace(s) ==
    IF s.pc = "epilogue" THEN BUFFER_LEN
    ELSE IF s.pc = "field" \/ s.fop # "idle" THEN UseBufferLen(s) - s.bufferEnd
    ELSE BUFFER_LEN - s.bufferEnd

AwaitsRead(s) ==
    s.pc \in {"preamble", "scan", "emptyLF", "valueLF", "field", "epilogue"} \/ s.fop # "idle"

\* read(buffer) of parseFormData: bufferEnd += value.byteLength
Stored(s, chunk) ==
    [s EXCEPT !.buffer = StoreAt(s.buffer, s.bufferEnd, chunk),
              !.bufferEnd = s.bufferEnd + Len(chunk)]

\* ------------------------------------------------------------------------
\* The stream of a yielded file: new RdStream({read, cancel})
\* ------------------------------------------------------------------------
\* read(view) of the file's stream, when its readFieldPart(view) has ended
\* or awaits a read (state t)
FileReadEnd(t) ==
    IF t.r = "await" THEN [t EXCEPT !.fop = "read"]
    ELSE IF t.r = "throw"
    THEN [t EXCEPT !.fop = "idle", !.readComplete = TRUE, !.cancelled = TRUE,
                   !.fstream = "errored", !.ferr = t.thrown]
    ELSE IF Len(t.part) = 0
    THEN [t EXCEPT !.fop = "idle", !.readComplete = TRUE, !.fstream = "closed"]
    ELSE [t EXCEPT !.fop = "idle",
                   !.entries[Len(t.entries)].content = @ \o t.out]

\* cancel() of the file's stream: while (!readComplete) await this.read(buffer)
\* t is the state in which a readFieldPart(buffer) has ended or awaits a read.
RECURSIVE CancelLoop(_)
CancelLoop(t) ==
    IF t.r = "await" THEN [t EXCEPT !.fop = "cancel"]
    ELSE IF t.r = "throw"
    THEN [t EXCEPT !.fop = "idle", !.readComplete = TRUE, !.cancelled = TRUE,
                   !.fstream = "cancelled", !.ferr = t.thrown]
    ELSE IF Len(t.part) = 0
    THEN [t EXCEPT !.fop = "idle", !.readComplete = TRUE, !.fstream = "cancelled"]
    ELSE CancelLoop(readFieldPart(t, "self", BUFFER_LEN))

\* ------------------------------------------------------------------------
\* The steps of the generator and of the file's stream
\* ------------------------------------------------------------------------
\* next() of the generator
Advanced(s) ==
    IF s.pc = "start" THEN Start(s) ELSE AfterYield(s)

\* The awaited read has delivered the bytes chunk
ReadDone(s, chunk) ==
    LET s0 == [s EXCEPT !.pos = s.pos + Len(chunk)]
    IN  IF s.fop = "read" THEN FileReadEnd(RFPResume(s0, chunk))
        ELSE IF s.fop = "cancel" THEN CancelLoop(RFPResume(s0, chunk))
        ELSE IF s.pc = "preamble" THEN Preamble(Stored(s0, chunk))
        ELSE IF s.pc = "scan" THEN HeaderScan(Stored(s0, chunk), s.i)
        ELSE IF s.pc = "emptyLF" THEN EmptyLineLf(Stored(s0, chunk), s.i)
        ELSE IF s.pc = "valueLF" THEN ValueLf(Stored(s0, chunk), s.i)
        ELSE IF s.pc = "field" THEN FieldLoop(RFPResume(s0, chunk))
        ELSE Epilogue(Stored(s0, chunk))

\* An end of the stream that yields the field that is being collected, with
\* what has arrived of it
ReadEndYieldsField(s) ==
    IF s.fop = "read" THEN FileReadEnd(Throw(s, "Incomplete multipart body"))
    ELSE IF s.fop = "cancel" THEN CancelLoop(Throw(s, "Incomplete multipart body"))
    ELSE IF s.pc = "field" THEN YieldField(s)
    ELSE IF s.pc = "epilogue" THEN [s EXCEPT !.pc = "done", !.locked = FALSE]
    ELSE Fail(s, "Incomplete multipart body")

\* The awaited read has reported the end of the stream ({done: true})
ReadEnd(s) ==
    IF s.fop = "read" THEN FileReadEnd(Throw(s, "Incomplete multipart body"))
    ELSE IF s.fop = "cancel" THEN CancelLoop(Throw(s, "Incomplete multipart body"))
    ELSE IF s.pc = "field" THEN FieldLoop(Throw(s, "Incomplete multipart body"))
    ELSE IF s.pc = "epilogue" THEN [s EXCEPT !.pc = "done", !.locked = FALSE]
    ELSE Fail(s, "Incomplete multipart body")

\* What a read with a view of no bytes comes to: reader.read rejects with a
\* TypeError, or it reports the end of the stream
ZeroReadErrors == {"TypeError", "Incomplete multipart body"}

\* The awaited read was given a view of no bytes, and has failed with e
ReadNoSpace(s, e) ==
    IF s.fop = "read" THEN FileReadEnd(Throw(s, e))
    ELSE IF s.fop = "cancel" THEN CancelLoop(Throw(s, e))
    ELSE IF s.pc = "field" THEN FieldLoop(Throw(s, e))
    ELSE Fail(s, e)

\* ------------------------------------------------------------------------
\* Bodies. A body is written the way the comment of parseFormData shows it:
\* "--" boundary CRLF, then per part its header lines, an empty line, the
\* payload, CRLF "--" boundary, and "--" behind the last boundary.
\* ------------------------------------------------------------------------
CRLF == <<C_CR, C_LF>>
Dashes == <<C_HYPHEN, C_HYPHEN>>
\* Content-Disposition: form-data; name="
StrDispositionHead == <<67, 111, 110, 116, 101, 110, 116, 45, 68, 105, 115, 112, 111, 115, 105, 116, 105, 111, 110, 58, 32, 102, 111, 114, 109, 45, 100, 97, 116, 97, 59, 32, 110, 97, 109, 101, 61, 34>>
\* "; filename="
StrFilenameParam == <<34, 59, 32, 102, 105, 108, 101, 110, 97, 109, 101, 61, 34>>
\* Content-Type: (and a space)
StrTypeHead == <<67, 111, 110, 116, 101, 110, 116, 45, 84, 121, 112, 101, 58, 32>>

\* A part: hasFilename says that Content-Disposition carries filename="..."
Part(name, hasFilename, filename, type, payload) ==
    [name |-> name, hasFilename |-> hasFilename, filename |-> filename,
     type |-> type, payload |-> payload]

EncodeHeaders(p) ==
    StrDispositionHead \o p.name
        \o (IF p.hasFilename THEN StrFilenameParam \o p.filename ELSE << >>)
        \o <<C_QT>> \o CRLF
        \o (IF p.type # << >> THEN StrTypeHead \o p.type \o CRLF ELSE << >>)
        \o CRLF

RECURSIVE EncodeParts(_, _)
EncodeParts(ps, boundary) ==
    IF ps = << >> THEN << >>
    ELSE EncodeHeaders(ps[1]) \o ps[1].payload \o CRLF \o Dashes \o boundary
            \o (IF Len(ps) = 1 THEN Dashes ELSE CRLF)
            \o EncodeParts(Tail(ps), boundary)

EncodeBody(preamble, ps, boundary, epilogue) ==
    preamble \o Dashes \o boundary \o CRLF \o EncodeParts(ps, boundary) \o epilogue

\* The offset in body behind part k (behind the boundary that ends it and the
\* two bytes that follow the boundary), for a body with a preamble of n bytes
RECURSIVE PartEnd(_, _, _, _)
PartEnd(ps, boundary, n, k) ==
    IF k = 0 THEN n + 2 + Len(boundary) + 2
    ELSE PartEnd(ps, boundary, n, k - 1)
            + Len(EncodeHeaders(ps[k])) + Len(ps[k].payload) + 2 + 2 + Len(boundary) + 2

\* The bodies that the parser is run on
MaxChunk == 4
SmallView == 2

\* bY
TokenBY == <<98, 89>>
\* name="a", the value v1
PartA == Part(<<97>>, FALSE, << >>, << >>, <<118, 49>>)
\* name="b"; filename="f", Content-Type: t/p, the payload PQ CRLF RS
PartB == Part(<<98>>, TRUE, <<102>>, <<116, 47, 112>>, <<80, 81, 13, 10, 82, 83>>)
\* name="c"; filename="", the payload w
PartC == Part(<<99>>, TRUE, << >>, << >>, <<119>>)
\* p CRLF
PreambleP == <<112, 13, 10>>

MixedParts == <<PartA, PartB, PartC>>
MixedBody == EncodeBody(PreambleP, MixedParts, TokenBY, CRLF)

\* A well-formed body of a field, a file and a part with an empty filename
CaseMixed ==
    [body |-> MixedBody, boundary |-> TokenBY,
     input |-> [parts |-> MixedParts, preambleLen |-> Len(PreambleP), wellFormed |-> TRUE]]

\* The same body, ending behind the first two bytes of the file's payload
CaseTruncated ==
    [body |-> Sub(MixedBody, 0, PartEnd(MixedParts, TokenBY, Len(PreambleP), 1)
                                  + Len(EncodeHeaders(PartB)) + 2),
     boundary |-> TokenBY,
     input |-> [parts |-> MixedParts, preambleLen |-> Len(PreambleP), wellFormed |-> FALSE]]

\* One field, under a boundary of n bytes
CaseBoundary(n) ==
    LET boundary == [k \in 1..n |-> 98]
    IN  [body |-> EncodeBody(<< >>, <<PartA>>, boundary, << >>), boundary |-> boundary,
         input |-> [parts |-> <<PartA>>, preambleLen |-> 0,
                    wellFormed |-> n >= 1 /\ n <= MAX_BOUNDARY_LEN]]

BoundaryLens == {0, 1, MAX_BOUNDARY_LEN, MAX_BOUNDARY_LEN + 1}

\* A field whose value holds a CR and then more than MAX_DECORATOR_LEN bytes,
\* with the boundary directly behind them (no CRLF before the boundary)
CaseNoCrlf ==
    [body |-> Dashes \o TokenBY \o CRLF \o EncodeHeaders(PartA) \o <<118, C_CR>>
                \o [k \in 1..(MAX_DECORATOR_LEN + 10) |-> 120] \o TokenBY \o Dashes,
     boundary |-> TokenBY,
     input |-> [parts |-> << >>, preambleLen |-> 0, wellFormed |-> FALSE]]

Cases == {CaseMixed, CaseTruncated, CaseNoCrlf} \cup {CaseBoundary(n) : n \in BoundaryLens}

\* ------------------------------------------------------------------------
\* SearchParam values (super_url.ts): a string, an array or an object. Every
\* value is a record of one shape:
\*   kind   "string", "array", "object", or "undefined" (no value)
\*   s      the text of a string (its bytes)
\*   keys   the keys of an object, in the order in which they were added
\*          (the code only looks a key up and counts the keys)
\*   vals   the values of an object (by the place of the key) or of an array
\* A key or index is held as [num, n, s]: the number n, or the text s.
\* ------------------------------------------------------------------------
Undefined == [kind |-> "undefined", s |-> << >>, keys |-> << >>, vals |-> << >>]
JString(s) == [kind |-> "string", s |-> s, keys |-> << >>, vals |-> << >>]
JArray(items) == [kind |-> "array", s |-> << >>, keys |-> << >>, vals |-> items]
JObject(keys, vals) == [kind |-> "object", s |-> << >>, keys |-> keys, vals |-> vals]
NewObject == JObject(<< >>, << >>)

NumSub(n) == [num |-> TRUE, n |-> n, s |-> << >>]
StrSub(s) == [num |-> FALSE, n |-> 0, s |-> s]

\* n+'': the decimal digits of n
RECURSIVE DecimalString(_)
DecimalString(n) ==
    IF n < 10 THEN <<48 + n>> ELSE DecimalString(n \div 10) \o <<48 + (n % 10)>>

\* The property key that sub names
KeyOf(sub) == IF sub.num THEN DecimalString(sub.n) ELSE sub.s

\* The place of key in the keys of the object map, or 0
KeyPlace(map, key) ==
    IF \E k \in 1..Len(map.keys) : map.keys[k] = key
    THEN CHOOSE k \in 1..Len(map.keys) : map.keys[k] = key
    ELSE 0

\* Array.isArray(map) ? map[Number(sub)] : map[sub+'']
\* (an array is only ever asked for an index)
GetSub(map, sub) ==
    IF map.kind = "array"
    THEN IF sub.num /\ sub.n < Len(map.vals) THEN map.vals[sub.n + 1] ELSE Undefined
    ELSE IF KeyPlace(map, KeyOf(sub)) # 0 THEN map.vals[KeyPlace(map, KeyOf(sub))]
    ELSE Undefined

\* (variant: an item of an array is stored one place behind its index)
SetSubSkipping(map, sub, value) ==
    IF map.kind = "array"
    THEN IF ~sub.num THEN map
         ELSE [map EXCEPT !.vals = [k \in 1..MaxOf(Len(map.vals), sub.n + 2) |->
                                       IF k = sub.n + 2 THEN value
                                       ELSE IF k <= Len(map.vals) THEN map.vals[k]
                                       ELSE Undefined]]
    ELSE IF KeyPlace(map, KeyOf(sub)) # 0
    THEN [map EXCEPT !.vals[KeyPlace(map, KeyOf(sub))] = value]
    ELSE [map EXCEPT !.keys = Append(@, KeyOf(sub)), !.vals = Append(@, value)]

\* (variant: a key that an object has keeps its value)
SetSubIfAbsent(map, sub, value) ==
    IF map.kind = "array"
    THEN IF ~sub.num THEN map
         ELSE [map EXCEPT !.vals = [k \in 1..MaxOf(Len(map.vals), sub.n + 1) |->
                                       IF k = sub.n + 1 THEN value
                                       ELSE IF k <= Len(map.vals) THEN map.vals[k]
                                       ELSE Undefined]]
    ELSE IF KeyPlace(map, KeyOf(sub)) # 0 THEN map
    ELSE [map EXCEPT !.keys = Append(@, KeyOf(sub)), !.vals = Append(@, value)]

\* map after map[sub] = value (an array is only ever given an index; an index
\* behind the length leaves holes)
SetSub(map, sub, value) ==
    IF map.kind = "array"
    THEN IF ~sub.num THEN map
         ELSE [map EXCEPT !.vals = [k \in 1..MaxOf(Len(map.vals), sub.n + 1) |->
                                       IF k = sub.n + 1 THEN value
                                       ELSE IF k <= Len(map.vals) THEN map.vals[k]
                                       ELSE Undefined]]
    ELSE IF KeyPlace(map, KeyOf(sub)) # 0
    THEN [map EXCEPT !.vals[KeyPlace(map, KeyOf(sub))] = value]
    ELSE [map EXCEPT !.keys = Append(@, KeyOf(sub)), !.vals = Append(@, value)]

\* typeof(v) == 'object'
IsObjectType(v) == v.kind \in {"array", "object"}

\* (variant: an empty segment names the first place of an array)
NextSubFirst(name, pos, pos2, nextMap) ==
    IF pos # pos2 THEN StrSub(Sub(name, pos, pos2))
    ELSE IF ~IsObjectType(nextMap) \/ nextMap.kind = "array" THEN NumSub(0)
    ELSE StrSub(DecimalString(Len(nextMap.keys)))

\* pos != pos2 ? name.slice(pos, pos2) : typeof(nextMap) != 'object' ? 0 :
\* Array.isArray(nextMap) ? nextMap.length : Object.keys(nextMap).length+''
NextSub(name, pos, pos2, nextMap) ==
    IF pos # pos2 THEN StrSub(Sub(name, pos, pos2))
    ELSE IF ~IsObjectType(nextMap) THEN NumSub(0)
    ELSE IF nextMap.kind = "array" THEN NumSub(Len(nextMap.vals))
    ELSE StrSub(DecimalString(Len(nextMap.keys)))

\* (variant: the conversion of an array starts from an empty object)
ArrayToObjectEmpty(a) == NewObject

\* Object.fromEntries(nextMap.map((item, index) => [index+'', item]))
ArrayToObject(a) ==
    JObject([k \in 1..Len(a.vals) |-> DecimalString(k - 1)], a.vals)

\* (variant: a segment of digits that names the length of the array appends)
NextMapConvByNumber(nextMap, nextSub) ==
    IF nextMap.kind = "array" /\ KeyOf(nextSub) # DecimalString(Len(nextMap.vals))
    THEN ArrayToObject(nextMap)
    ELSE IF IsObjectType(nextMap) THEN nextMap
    ELSE IF KeyOf(nextSub) = <<48>> THEN JArray(<< >>)
    ELSE NewObject

\* (variant: a string or undefined is always converted to an object)
NextMapConvToObject(nextMap, nextSub) ==
    IF nextMap.kind = "array" /\ ~(nextSub.num /\ nextSub.n = Len(nextMap.vals))
    THEN ArrayToObject(nextMap)
    ELSE IF IsObjectType(nextMap) THEN nextMap
    ELSE NewObject

\* Array.isArray(nextMap) && nextSub!==nextMap.length ? (convert array to
\* object) : typeof(nextMap) == 'object' ? nextMap : nextSub === 0 ? [] : {}
NextMapConv(nextMap, nextSub) ==
    IF nextMap.kind = "array" /\ ~(nextSub.num /\ nextSub.n = Len(nextMap.vals))
    THEN ArrayToObject(nextMap)
    ELSE IF IsObjectType(nextMap) THEN nextMap
    ELSE IF nextSub.num /\ nextSub.n = 0 THEN JArray(<< >>)
    ELSE NewObject

\* (variant: the value is stored in a container of its own, which takes the
\* place of the one that was there)
RECURSIVE BracketLoopFresh(_, _, _, _, _)
BracketLoopFresh(map, sub, name, pos, value) ==
    LET pos2        == IndexOfByte(name, Len(name), 93, pos + 1)
        nextMap     == GetSub(map, sub)
        nextSub     == NextSub(name, pos + 1, pos2, nextMap)
        nextMapConv == NextMapConv(nextMap, nextSub)
    IN  IF pos2 = -1 THEN [obj |-> SetSub(map, sub, value), ok |-> FALSE]
        ELSE IF At(name, pos2 + 1) # 91
        THEN [obj |-> SetSub(map, sub,
                         SetSub(IF nextMapConv.kind = "array" THEN JArray(<< >>) ELSE NewObject,
                                IF nextSub.num THEN NumSub(0) ELSE nextSub, value)),
              ok |-> TRUE]
        ELSE LET rest == BracketLoopFresh(nextMapConv, nextSub, name, pos2 + 1, value)
             IN  [obj |-> SetSub(map, sub, rest.obj), ok |-> rest.ok]

\* The loop of setSearchParamJson, from the '[' at pos, with map and sub; it
\* gives map as it is after the call, and ok
RECURSIVE BracketLoop(_, _, _, _, _)
BracketLoop(map, sub, name, pos, value) ==
    LET pos2        == IndexOfByte(name, Len(name), 93, pos + 1)
        nextMap     == GetSub(map, sub)
        nextSub     == NextSub(name, pos + 1, pos2, nextMap)
        nextMapConv == NextMapConv(nextMap, nextSub)
    IN  IF pos2 = -1 THEN [obj |-> SetSub(map, sub, value), ok |-> FALSE]
        ELSE IF At(name, pos2 + 1) # 91
        THEN [obj |-> SetSub(map, sub, SetSub(nextMapConv, nextSub, value)), ok |-> TRUE]
        ELSE LET rest == BracketLoop(nextMapConv, nextSub, name, pos2 + 1, value)
             IN  [obj |-> SetSub(map, sub, rest.obj), ok |-> rest.ok]

\* (variant: a name without '[' leaves a key that is there as it is)
setSearchParamJsonIfAbsent(obj, name, value) ==
    LET pos == IndexOfByte(name, Len(name), 91, 0)
    IN  IF pos = -1
        THEN [obj |-> IF KeyPlace(obj, name) # 0 THEN obj ELSE SetSub(obj, StrSub(name), value),
              ok |-> TRUE]
        ELSE BracketLoop(obj, StrSub(Sub(name, 0, pos)), name, pos, value)

\* setSearchParamJson(obj, name, value): obj after the call, and what the
\* call returns
setSearchParamJson(obj, name, value) ==
    LET pos == IndexOfByte(name, Len(name), 91, 0)
    IN  IF pos = -1 THEN [obj |-> SetSub(obj, StrSub(name), value), ok |-> TRUE]
        ELSE BracketLoop(obj, StrSub(Sub(name, 0, pos)), name, pos, value)

\* ------------------------------------------------------------------------
\* SuperRequest: files(), json() and formData() of a multipart/form-data body
\*   call          the accessor that is running (it awaits a read of the
\*                 body), or "idle"
\*   boundary      #boundary is set
\*   bodyJson, bodyFormData, bodyIterator
\*                 #bodyJson, #bodyFormData, #bodyIterator are set
\*   json, form    the entries of #bodyJson and of #bodyFormData
\*   parsers       the calls of parseFormData(this.#getBodyStream(), ...)
\*   ret           what the last call has given: "none", "file", "end" (no
\*                 more file), "json", "formData" (with result), "error"
\*   done          json() or formData() has ended
\*   first         the accessor that was called first
\*   handed        the files that files() has given to its consumer
\* ------------------------------------------------------------------------
MemoryShapes == {"string", "URLSearchParams", "ArrayBuffer", "view"}
NativeShapes == {"ReadableStream", "Blob", "FormData"}
StreamedShapes == NativeShapes \cup {"reader", "iterable"}

NewMultipart(shape) ==
    [st |-> "req", shape |-> shape, call |-> "idle", done |-> FALSE, boundary |-> TRUE,
     bodyJson |-> FALSE, bodyFormData |-> FALSE, bodyIterator |-> FALSE,
     json |-> NewObject, form |-> << >>, parsers |-> 0,
     ret |-> "none", result |-> << >>, err |-> "", first |-> "none", handed |-> 0]


LastEntry(s) == s.entries[Len(s.entries)]

\* parseFormData(this.#getBodyStream(), this.#charset, this.#boundary): a new
\* generator on a new stream of the body. The stream of a body kept in
\* memory starts at its first byte.
NewParser(r, s) ==
    IF r.shape \in MemoryShapes THEN GenInit
    ELSE [GenInit EXCEPT !.pos = s.pos, !.cancelled = s.cancelled]

\* try {...} finally {this.#bodyJson = undefined; this.#bodyFormData = undefined}
Finished(r) == [r EXCEPT !.call = "idle", !.done = TRUE, !.bodyJson = FALSE, !.bodyFormData = FALSE]

\* The running accessor throws e
Thrown(r, e) ==
    LET r1 == [r EXCEPT !.ret = "error", !.err = e, !.result = << >>]
    IN  IF r.call = "files" THEN [r1 EXCEPT !.call = "idle"] ELSE Finished(r1)

\* The running accessor has got {done: true} from the generator, or has no
\* generator to ask
Returned(r) ==
    IF r.call = "files"
    THEN [r EXCEPT !.call = "idle", !.ret = "end", !.bodyIterator = FALSE]
    ELSE IF r.call = "json"
    THEN Finished([r EXCEPT !.ret = "json", !.result = r.json])
    ELSE Finished([r EXCEPT !.ret = "formData", !.result = r.form])

\* The field that the generator has yielded, as the running accessor keeps it
Collected(r, e) ==
    [r EXCEPT !.json = IF r.call = "formData" THEN @
                       ELSE setSearchParamJson(@, e.name, JString(e.value)).obj,
              !.form = IF r.call = "json" THEN @ ELSE Append(@, <<e.name, e.value>>)]

\* The loop of #nextFile, json() and formData() over the generator, from the
\* state s in which the generator's next(), or the cancel() of the file it
\* has yielded, has ended or awaits a read. A generator that has returned or
\* thrown before answers next() with {done: true}.
RECURSIVE AccessorLoop(_, _)
AccessorLoop(r, s) ==
    LET e == LastEntry(s)
        again(r1) == IF s.pc \in {"done", "failed"} THEN [rq |-> Returned(r1), g |-> s]
                     ELSE AccessorLoop(r1, Advanced(s))
    IN  IF AwaitsRead(s) THEN [rq |-> r, g |-> s]
        ELSE IF s.pc = "failed" THEN [rq |-> Thrown(r, s.err), g |-> s]
        ELSE IF s.pc = "done" THEN [rq |-> Returned(r), g |-> s]
        ELSE IF ~e.isFile THEN again(Collected(r, e))
        ELSE IF r.call = "files"
        THEN [rq |-> [r EXCEPT !.call = "idle", !.ret = "file", !.handed = @ + 1], g |-> s]
        ELSE IF s.fstream = "open"
        THEN AccessorLoop(r, CancelLoop(readFieldPart(s, "self", BUFFER_LEN)))
        ELSE IF s.ferr # "" THEN [rq |-> Thrown(r, s.ferr), g |-> s]
        ELSE again(r)

\* await this.#bodyIterator.next(), and the loop behind it
CallNext(r, s) ==
    IF s.pc \in {"done", "failed"} THEN [rq |-> Returned(r), g |-> s]
    ELSE AccessorLoop(r, Advanced(s))

\* files().next(): #nextFile(), for a body that is neither FormData nor
\* URLSearchParams
nextFile(r, s) ==
    LET new == ~r.bodyJson
        r1  == [r EXCEPT !.call = "files", !.bodyJson = TRUE, !.bodyFormData = TRUE,
                         !.json = IF new THEN NewObject ELSE @,
                         !.bodyIterator = IF new THEN TRUE ELSE @,
                         !.parsers = IF new THEN @ + 1 ELSE @]
        s1  == IF new THEN NewParser(r, s) ELSE s
    IN  IF ~r.boundary THEN [rq |-> [r EXCEPT !.ret = "end"], g |-> s]
        ELSE IF r1.bodyIterator THEN CallNext(r1, s1)
        ELSE [rq |-> Returned(r1), g |-> s1]

\* json() of a body with Content-Type multipart/form-data
jsonMultipart(r, s) ==
    LET new == ~r.bodyJson
        r0  == [r EXCEPT !.call = "json"]
        r1  == [r0 EXCEPT !.bodyJson = TRUE,
                          !.json = IF new THEN NewObject ELSE @,
                          !.bodyIterator = IF new THEN TRUE ELSE @,
                          !.parsers = IF new THEN @ + 1 ELSE @]
        s1  == IF new THEN NewParser(r, s) ELSE s
    IN  IF r.boundary
        THEN IF r1.bodyIterator THEN CallNext(r1, s1) ELSE [rq |-> Returned(r1), g |-> s1]
        ELSE IF r.bodyJson THEN [rq |-> Returned(r0), g |-> s]
        ELSE [rq |-> Thrown([r0 EXCEPT !.parsers = @ + 1], "SyntaxError"), g |-> s]

\* (variant: formData() starts a parser of its own whatever was read before)
formDataRestart(r, s) ==
    CallNext([r EXCEPT !.call = "formData", !.bodyFormData = TRUE, !.form = << >>,
                       !.bodyIterator = TRUE, !.parsers = @ + 1],
             NewParser(r, s))

\* formData() of a body with Content-Type multipart/form-data
formDataMultipart(r, s) ==
    LET new == ~r.bodyFormData
        r0  == [r EXCEPT !.call = "formData"]
        r1  == [r0 EXCEPT !.bodyFormData = TRUE,
                          !.form = IF new THEN << >> ELSE @,
                          !.bodyIterator = IF new THEN TRUE ELSE @,
                          !.parsers = IF new THEN @ + 1 ELSE @]
        s1  == IF new THEN NewParser(r, s) ELSE s
    IN  IF r.boundary
        THEN IF r1.bodyIterator THEN CallNext(r1, s1) ELSE [rq |-> Returned(r1), g |-> s1]
        ELSE IF r.bodyFormData THEN [rq |-> Returned(r0), g |-> s]
        ELSE [rq |-> Returned([r0 EXCEPT !.form = << >>]), g |-> s]

\* finally of the stream that #getBodyStream makes of a ReadableStream, a
\* Blob or a FormData: the stream has ended (ended: a read has reported the
\* end) or was cancelled
Settled(p, ended) ==
    IF p.rq.st = "req" /\ p.rq.shape \in NativeShapes /\ (ended \/ p.g.cancelled)
    THEN [p EXCEPT !.rq.bodyIterator = FALSE, !.rq.boundary = FALSE]
    ELSE p

\* The read that was awaited has ended, with the generator in state s: the
\* accessor that awaited it goes on
Resumed(r, s, ended) ==
    IF r.st = "req" /\ r.call # "idle"
    THEN Settled(AccessorLoop(r, s), ended)
    ELSE Settled([rq |-> r, g |-> s], ended)

\* ------------------------------------------------------------------------
\* The parser and its consumer
\* ------------------------------------------------------------------------
\* No request is made: the parser is run on the body itself
NoRequest == [st |-> "none"]

Init ==
    \E c \in Cases :
        /\ body = c.body
        /\ boundaryBytes = c.boundary
        /\ input = c.input
        /\ g = GenInit
        /\ lastOp = "Init"
        /\ canon = TRUE
        /\ rq = NoRequest

\* The consumer asks the generator for the next entry
Advance ==
    /\ g.pc \in {"start", "yielded"}
    /\ g.fop = "idle"
    /\ g' = Advanced(g)
    /\ lastOp' = "Advance"
    /\ canon' = (canon /\ ~(g.pc = "yielded" /\ g.fstream \in {"open", "errored"}))
    /\ UNCHANGED <<rq, body, boundaryBytes, input>>

\* The lengths in which the next bytes of the body may arrive. The stream
\* of a request's body kept in memory fills the view it is given; of the
\* chunkings of a request's streamed body, chunks of MaxChunk bytes and the
\* chunks that fill the view are taken.
ChunkLens(s) ==
    LET most == MinOf(Remaining(s), ReadSpace(s))
    IN  IF rq.st = "req"
        THEN IF rq.shape \in MemoryShapes THEN {most} ELSE {MinOf(MaxChunk, most), most}
        ELSE {n \in 1..MaxChunk : n <= most} \cup {most}

\* The body stream delivers its next n bytes to the read that is awaited
Read ==
    /\ AwaitsRead(g)
    /\ Remaining(g) > 0
    /\ ReadSpace(g) > 0
    /\ \E n \in ChunkLens(g) :
          LET p == Resumed(rq, ReadDone(g, SubSeq(body, g.pos + 1, g.pos + n)), FALSE)
          IN  g' = p.g /\ rq' = p.rq
    /\ lastOp' = "Read"
    /\ UNCHANGED <<body, boundaryBytes, input, canon>>

\* The body stream reports its end to the read that is awaited
ReadEof ==
    /\ AwaitsRead(g)
    /\ Remaining(g) = 0
    /\ ReadSpace(g) > 0
    /\ LET p == Resumed(rq, ReadEnd(g), TRUE)
       IN  g' = p.g /\ rq' = p.rq
    /\ lastOp' = "ReadEof"
    /\ UNCHANGED <<body, boundaryBytes, input, canon>>

\* The awaited read has offered no free byte
ReadZero ==
    /\ AwaitsRead(g)
    /\ ReadSpace(g) = 0
    /\ \E e \in ZeroReadErrors :
          LET p == Resumed(rq, ReadNoSpace(g, e), e = "Incomplete multipart body")
          IN  g' = p.g /\ rq' = p.rq
    /\ lastOp' = "ReadZero"
    /\ UNCHANGED <<body, boundaryBytes, input, canon>>

\* The views with which the consumer reads a file's stream: of BUFFER_LEN
\* bytes, and small ones where the parser is run on the body itself
ViewLens == IF rq.st = "req" THEN {BUFFER_LEN} ELSE {SmallView, BUFFER_LEN}

\* The consumer reads the yielded file's stream into a view of len bytes
FileRead ==
    /\ g.pc = "yielded" /\ g.fstream = "open" /\ g.fop = "idle"
    /\ \E len \in ViewLens :
          /\ LET p == Settled([rq |-> rq, g |-> FileReadEnd(readFieldPart(g, "view", len))], FALSE)
             IN  g' = p.g /\ rq' = p.rq
          /\ canon' = (canon /\ len = BUFFER_LEN)
    /\ lastOp' = "FileRead"
    /\ UNCHANGED <<body, boundaryBytes, input>>

\* The consumer cancels the yielded file's stream
FileCancel ==
    /\ g.pc = "yielded" /\ g.fstream = "open" /\ g.fop = "idle"
    /\ LET p == Settled([rq |-> rq, g |-> CancelLoop(readFieldPart(g, "self", BUFFER_LEN))], FALSE)
       IN  g' = p.g /\ rq' = p.rq
    /\ lastOp' = "FileCancel"
    /\ canon' = FALSE
    /\ UNCHANGED <<body, boundaryBytes, input>>

Next == Advance \/ Read \/ ReadEof \/ ReadZero \/ FileRead \/ FileCancel

Spec == Init /\ [][Next]_vars

\* ------------------------------------------------------------------------
\* Properties of the parser
\* ------------------------------------------------------------------------
\* C10: with a boundary of no bytes or of more than 100 bytes, the first
\* advance fails with 'Invalid boundary' and no byte of the body has been
\* read; a boundary of 1 to 100 bytes never fails with 'Invalid boundary', and
\* the first advance goes on to the first read of the body.
C10_BoundaryLength ==
    LET n == Len(boundaryBytes)
    IN  /\ (n = 0 \/ n > 100) =>
              /\ g.pc \in {"start", "failed"}
              /\ g.pos = 0
              /\ g.pc = "failed" => g.err = "Invalid boundary"
        /\ (n >= 1 /\ n <= 100) =>
              /\ ~(g.pc = "failed" /\ g.err = "Invalid boundary")
              /\ (lastOp = "Advance" /\ g.entries = << >>) => g.pc = "preamble"

C10_Witness ==
    g.pc = "failed" /\ g.err = "Invalid boundary" /\ Len(boundaryBytes) = 101 /\ g.pos = 0

MsgUndrained == "Please, read the whole file stream, or cancel it, before reading next form field"

StreamPos(s) == s.pos - (s.bufferEnd - s.bufferStart)

\* name and kind of the entries yielded
Shapes(entries) == [k \in 1..Len(entries) |-> <<entries[k].name, entries[k].isFile>>]

IsPrefix(a, b) == Len(a) <= Len(b) /\ a = SubSeq(b, 1, Len(a))

\* The entries of a well-formed body, in the order of its parts, each a file
\* when isFile(part) says so
InStreamOrder(isFile(_)) ==
    LET expected == [k \in 1..Len(input.parts) |->
                        <<input.parts[k].name, isFile(input.parts[k])>>]
        n == Len(g.entries)
    IN  input.wellFormed =>
          /\ IsPrefix(Shapes(g.entries), expected)
          /\ g.pc = "done" => n = Len(input.parts)
          /\ n >= 1 => StreamPos(g) >= PartEnd(input.parts, boundaryBytes, input.preambleLen, n - 1)

HasFilename(p) == p.hasFilename
HasNonEmptyFilename(p) == p.hasFilename /\ p.filename # << >>

C2_FilePayloadExact ==
    LET n == Len(g.entries)
        e == g.entries[n]
        p == input.parts[n]
    IN  (input.wellFormed /\ n >= 1 /\ e.isFile) =>
          /\ e.filename = p.filename
          /\ e.type = p.type
          /\ (lastOp \in {"Advance", "Read"} /\ g.fstream = "open" /\ g.fop = "idle" /\ e.content = << >>)
                => StreamPos(g) = PartEnd(input.parts, boundaryBytes, input.preambleLen, n - 1)
                                    + Len(EncodeHeaders(p))
          /\ g.fstream # "errored"
          /\ IsPrefix(e.content, p.payload)
          /\ g.fstream = "closed" => e.content = p.payload

\* The consumer of the reference run: it reads each file up to its end with
\* views of BUFFER_LEN bytes, and the body arrives in one chunk
RECURSIVE RunInOneChunk(_)
RunInOneChunk(s) ==
    IF s.pc \in {"done", "failed"} \/ s.fstream = "errored" THEN s
    ELSE IF AwaitsRead(s)
    THEN IF ReadSpace(s) = 0 THEN RunInOneChunk(ReadNoSpace(s, "TypeError"))
         ELSE IF Remaining(s) = 0 THEN RunInOneChunk(ReadEnd(s))
         ELSE RunInOneChunk(ReadDone(s, SubSeq(body, s.pos + 1,
                                               s.pos + MinOf(Remaining(s), ReadSpace(s)))))
    ELSE IF s.pc = "yielded" /\ s.fstream = "open"
    THEN RunInOneChunk(FileReadEnd(readFieldPart(s, "view", BUFFER_LEN)))
    ELSE RunInOneChunk(Advanced(s))

\* What a run has given its consumer: the entries, and how it ended
Outcome(s) ==
    [entries |-> s.entries,
     end |-> IF s.fstream = "errored" THEN s.ferr
             ELSE IF s.pc = "failed" THEN s.err ELSE "done"]

\* C3: whatever the chunks in which the body arrives, a run that has ended
\* (the parser has returned or failed, or a file's stream has failed) has
\* given the same entries and has ended the same way as the run in which the
\* whole body arrives in one chunk, the consumer reading each file up to its
\* end in both.
C3_ChunkingIndependent ==
    (canon /\ (g.pc \in {"done", "failed"} \/ g.fstream = "errored"))
        => Outcome(g) = Outcome(RunInOneChunk(GenInit))

\* ------------------------------------------------------------------------
\* SuperRequest: the body behind one accessor, and lengthLimit
\*   shape       what the body was given as (#bodyInit)
\*   type        the Content-Type of the request
\*   data        the bytes of the body, as its source hands them out
\*   limit       #lengthLimit
\*   st          "new", "open" (a stream made by #getBodyStream is being
\*               read), "done" (the accessor has given its result, or the
\*               stream has ended), "failed" (the accessor or a read has
\*               thrown err)
\*   lengthLimit the counter of the stream (let lengthLimit)
\*   srcPos      the bytes that the source has handed out, lastChunk those
\*               of its last chunk; srcEnded: it was cancelled or closed
\*   delivered   the bytes that the consumer has got
\*   out         the kind of result that the accessor has given
\* ------------------------------------------------------------------------
ContentTypes == {"multipart/form-data", "application/x-www-form-urlencoded", ""}

NewRequest(shape, type, data, limit) ==
    [st |-> "new", shape |-> shape, type |-> type, data |-> data, limit |-> limit,
     acc |-> "none", err |-> "", lengthLimit |-> limit, opened |-> FALSE,
     srcPos |-> 0, lastChunk |-> 0, srcEnded |-> FALSE, delivered |-> << >>, out |-> ""]

TooBig(r) == [r EXCEPT !.st = "failed", !.err = "TooBigError"]

\* The accessor gives its result without a stream
Given(r, out, bytes) == [r EXCEPT !.st = "done", !.out = out, !.delivered = bytes]

\* #getBodyStream(), for the accessor acc
getBodyStream(r, acc) ==
    LET r0 == [r EXCEPT !.acc = acc, !.lengthLimit = r.limit]
    IN  IF r.shape \in MemoryShapes /\ Len(r.data) > r.limit
        THEN TooBig(r0)
        ELSE [r0 EXCEPT !.st = "open", !.opened = TRUE]

\* The stream has ended: the accessor gives its result
StreamEnd(r) == [r EXCEPT !.st = "done", !.out = r.acc]

\* (variant: the chunk is given to the consumer before the count is checked)
streamReadUnchecked(r, n, v) ==
    IF n = 0 THEN StreamEnd(r)
    ELSE [r EXCEPT !.srcPos = r.srcPos + n, !.lastChunk = n,
                   !.lengthLimit = r.lengthLimit - n,
                   !.delivered = @ \o SubSeq(r.data, r.srcPos + 1, r.srcPos + n)]

\* read(buffer) of the stream made by #getBodyStream, buffer of v bytes, when
\* the source hands out its next n bytes (n = 0: the source has ended)
streamRead(r, n, v) ==
    LET chunk == SubSeq(r.data, r.srcPos + 1, r.srcPos + n)
        r1 == [r EXCEPT !.srcPos = r.srcPos + n, !.lastChunk = n,
                        !.lengthLimit = r.lengthLimit - n]
    IN  IF r.shape \in MemoryShapes
        THEN IF n = 0 THEN StreamEnd(r)
             ELSE [r1 EXCEPT !.delivered = @ \o chunk]
        ELSE IF r.shape \in NativeShapes
        THEN IF n = 0 THEN StreamEnd(r)
             ELSE IF r1.lengthLimit < 0
             THEN [r1 EXCEPT !.st = "failed", !.err = "Error", !.srcEnded = TRUE]
             ELSE [r1 EXCEPT !.delivered = @ \o chunk]
        ELSE IF n = 0 THEN StreamEnd([r EXCEPT !.srcEnded = TRUE])
             ELSE IF r1.lengthLimit < 0
             THEN [TooBig(r1) EXCEPT !.srcEnded = TRUE]
             ELSE [r1 EXCEPT !.delivered = @ \o chunk]

\* The lengths in which the source may hand out its next bytes to a read
\* with a buffer of v bytes
SourceLens(r, v) ==
    LET rest == Len(r.data) - r.srcPos
    IN  IF rest = 0 THEN {0}
        ELSE IF r.shape \in MemoryShapes THEN {MinOf(v, rest)}
        ELSE IF r.shape = "iterable" THEN 1..rest
        ELSE 1..MinOf(v, rest)

\* bytes() and text(): the shapes kept in memory are checked and given at once
bytesOrText(r, acc) ==
    IF r.shape \in MemoryShapes
    THEN IF Len(r.data) > r.limit THEN TooBig([r EXCEPT !.acc = acc])
         ELSE Given([r EXCEPT !.acc = acc], acc, r.data)
    ELSE getBodyStream(r, acc)

\* json()
json(r) ==
    IF r.shape \in {"FormData", "URLSearchParams"}
    THEN Given([r EXCEPT !.acc = "json"], "json", << >>)
    ELSE getBodyStream(r, "json")

\* formData()
formData(r) ==
    IF r.shape \in {"FormData", "URLSearchParams"}
    THEN Given([r EXCEPT !.acc = "formData"], "formData", << >>)
    ELSE IF r.type \in {"multipart/form-data", "application/x-www-form-urlencoded"}
    THEN getBodyStream(r, "formData")
    ELSE Given([r EXCEPT !.acc = "formData"], "formData", << >>)

MaxBody == 3
MaxLimit == 2
MaxView == 2

\* The parser's variables, while only a request's body is read
ParserIdle ==
    /\ body = << >>
    /\ boundaryBytes = << >>
    /\ input = [parts |-> << >>, preambleLen |-> 0, wellFormed |-> FALSE]
    /\ g = GenInit
    /\ canon = TRUE

InitBody ==
    /\ ParserIdle
    /\ lastOp = "Init"
    /\ \E shape \in MemoryShapes \cup StreamedShapes, type \in ContentTypes,
          n \in 0..MaxBody, limit \in 0..MaxLimit :
          rq = NewRequest(shape, type, [k \in 1..n |-> k], limit)

Unused == <<body, boundaryBytes, input, g, canon>>

\* get body
GetBody ==
    /\ rq.st = "new"
    /\ rq' = getBodyStream(rq, "body")
    /\ lastOp' = "GetBody"
    /\ UNCHANGED Unused

Bytes ==
    /\ rq.st = "new"
    /\ rq' = bytesOrText(rq, "bytes")
    /\ lastOp' = "Bytes"
    /\ UNCHANGED Unused

Text ==
    /\ rq.st = "new"
    /\ rq' = bytesOrText(rq, "text")
    /\ lastOp' = "Text"
    /\ UNCHANGED Unused

ArrayBuffer ==
    /\ rq.st = "new"
    /\ rq' = getBodyStream(rq, "arrayBuffer")
    /\ lastOp' = "ArrayBuffer"
    /\ UNCHANGED Unused

Blob ==
    /\ rq.st = "new"
    /\ rq' = getBodyStream(rq, "blob")
    /\ lastOp' = "Blob"
    /\ UNCHANGED Unused

Json ==
    /\ rq.st = "new"
    /\ rq' = json(rq)
    /\ lastOp' = "Json"
    /\ UNCHANGED Unused

FormData ==
    /\ rq.st = "new"
    /\ rq' = formData(rq)
    /\ lastOp' = "FormData"
    /\ UNCHANGED Unused

\* One read of the stream made by #getBodyStream, by the consumer of the
\* stream or by the accessor that reads it to its end
StreamRead ==
    /\ rq.st = "open"
    /\ \E v \in 1..MaxView : \E n \in SourceLens(rq, v) : rq' = streamRead(rq, n, v)
    /\ lastOp' = "StreamRead"
    /\ UNCHANGED Unused

NextBody == GetBody \/ Bytes \/ Text \/ ArrayBuffer \/ Blob \/ Json \/ FormData \/ StreamRead

SpecBody == InitBody /\ [][NextBody]_vars

\* C4: for a body given as a stream, a Blob, a FormData, a reader or an
\* async iterable, whose bytes are read through the stream of the body: the
\* consumer never has more than lengthLimit bytes, and what it has are the
\* first bytes of the body; the read with which the source has handed out
\* more than lengthLimit bytes has failed and has given none of its chunk,
\* and no other read fails; a body of at most lengthLimit bytes is given
\* whole when the stream has ended.
C4_StreamWithinLimit ==
    (rq.shape \in StreamedShapes /\ rq.opened) =>
        /\ Len(rq.delivered) <= rq.limit
        /\ IsPrefix(rq.delivered, rq.data)
        /\ rq.srcPos > rq.limit <=> rq.st = "failed"
        /\ rq.st = "failed" => Len(rq.delivered) = rq.srcPos - rq.lastChunk
        /\ rq.st # "failed" => Len(rq.delivered) = rq.srcPos
        /\ (rq.st = "done" /\ Len(rq.data) <= rq.limit) => rq.delivered = rq.data

\* A chunk larger than what is left of the limit has arrived behind a chunk
\* that was given
C4_Witness ==
    /\ rq.shape \in StreamedShapes /\ rq.st = "failed"
    /\ rq.delivered # << >> /\ rq.limit - Len(rq.delivered) >= 1
    /\ rq.lastChunk >= 2

\* C5: for a body given as a string, URLSearchParams, ArrayBuffer or view,
\* an accessor fails exactly when the body has more than lengthLimit bytes,
\* it fails with TooBigError and has given nothing, and an accessor that gives
\* bytes gives the whole body otherwise.
C5_MemoryBodyChecked ==
    (rq.shape \in MemoryShapes /\ rq.st # "new") =>
        /\ Len(rq.data) > rq.limit <=> rq.st = "failed"
        /\ rq.st = "failed" => (rq.err = "TooBigError" /\ rq.delivered = << >> /\ rq.out = "")
        /\ (rq.st = "done" /\ rq.acc \notin {"json", "formData"}) => rq.delivered = rq.data

\* C6: whatever the shape of the body, a failure over lengthLimit is a
\* TooBigError, and the source of a streamed body is then cancelled or closed.
C6_TooBigErrorForEveryShape ==
    rq.st = "failed" =>
        /\ rq.err = "TooBigError"
        /\ rq.shape \in StreamedShapes => rq.srcEnded

\* ------------------------------------------------------------------------
\* A request with a multipart/form-data body, and the consumer of its
\* files(), json() and formData()
\* ------------------------------------------------------------------------
\* name="f", the value w
PartF == Part(<<102>>, FALSE, << >>, << >>, <<119>>)
\* name="d"; filename="g", Content-Type: t/p, the payload Z
PartD == Part(<<100>>, TRUE, <<103>>, <<116, 47, 112>>, <<90>>)
\* name="e", the value w2
PartE == Part(<<101>>, FALSE, << >>, << >>, <<119, 50>>)
\* name="a", a value of somewhat less than half of BUFFER_LEN bytes
PartHalf == Part(<<97>>, FALSE, << >>, << >>, [k \in 1..(BUFFER_LEN \div 2 - 150) |-> 120])
\* name="b"; filename="f", a payload of somewhat more than half of BUFFER_LEN bytes
PartLong == Part(<<98>>, TRUE, <<102>>, <<116, 47, 112>>, [k \in 1..(BUFFER_LEN \div 2 + 100) |-> 121])

FormParts == <<PartA, PartB, PartF, PartD, PartE>>
LongParts == <<PartHalf, PartLong, PartE>>

\* Fields before, between and behind two files, as a string and as a stream
CaseForm(shape) ==
    [body |-> EncodeBody(<< >>, FormParts, TokenBY, CRLF), boundary |-> TokenBY, shape |-> shape,
     input |-> [parts |-> FormParts, preambleLen |-> 0, wellFormed |-> TRUE]]

\* A body of more than BUFFER_LEN bytes, given as a string: a long field, a
\* long file, a field
CaseLong ==
    [body |-> EncodeBody(<< >>, LongParts, TokenBY, CRLF), boundary |-> TokenBY, shape |-> "string",
     input |-> [parts |-> LongParts, preambleLen |-> 0, wellFormed |-> TRUE]]

ReqCases == {CaseForm("string"), CaseForm("ReadableStream"), CaseLong}

InitReq ==
    \E c \in ReqCases :
        /\ body = c.body
        /\ boundaryBytes = c.boundary
        /\ input = c.input
        /\ g = GenInit
        /\ lastOp = "Init"
        /\ canon = TRUE
        /\ rq = NewMultipart(c.shape)

CanCall == rq.st = "req" /\ rq.call = "idle" /\ ~rq.done /\ g.fop = "idle"

Called(r, acc) == [r EXCEPT !.first = IF @ = "none" THEN acc ELSE @]

\* The consumer asks files() for the next file
FilesNext ==
    /\ CanCall
    /\ LET p == Settled(nextFile(Called(rq, "files"), g), FALSE)
       IN  g' = p.g /\ rq' = p.rq
    /\ lastOp' = "FilesNext"
    /\ UNCHANGED <<body, boundaryBytes, input, canon>>

\* The consumer calls json()
JsonMultipart ==
    /\ CanCall
    /\ LET p == Settled(jsonMultipart(Called(rq, "json"), g), FALSE)
       IN  g' = p.g /\ rq' = p.rq
    /\ lastOp' = "JsonMultipart"
    /\ UNCHANGED <<body, boundaryBytes, input, canon>>

\* The consumer calls formData()
FormDataMultipart ==
    /\ CanCall
    /\ LET p == Settled(formDataMultipart(Called(rq, "formData"), g), FALSE)
       IN  g' = p.g /\ rq' = p.rq
    /\ lastOp' = "FormDataMultipart"
    /\ UNCHANGED <<body, boundaryBytes, input, canon>>

NextReq ==
    FilesNext \/ JsonMultipart \/ FormDataMultipart
        \/ Read \/ ReadEof \/ ReadZero \/ FileRead \/ FileCancel

SpecReq == InitReq /\ [][NextReq]_vars

\* The fields of the body: its parts that are not files, in stream order
RECURSIVE FieldsOf(_)
FieldsOf(ps) ==
    IF ps = << >> THEN << >>
    ELSE (IF HasNonEmptyFilename(ps[1]) THEN << >> ELSE << <<ps[1].name, ps[1].payload>> >>)
            \o FieldsOf(Tail(ps))

\* The object that json() makes of fields
RECURSIVE JsonOf(_)
JsonOf(fields) ==
    IF fields = << >> THEN NewObject
    ELSE LET f == fields[Len(fields)]
         IN  setSearchParamJson(JsonOf(SubSeq(fields, 1, Len(fields) - 1)), f[1], JString(f[2])).obj

ResultOf(fields) == IF rq.ret = "json" THEN JsonOf(fields) ELSE fields

\* C7: a request makes one parser of its multipart body, whatever the
\* accessors called; and when json() or formData() has returned with the
\* parser at the end of a well-formed body, after files() or without it, the
\* result holds the fields of the body, each once and in stream order (those
\* that files() has passed and those behind), and no file.
C7_FilesThenFieldsOnePass ==
    /\ rq.parsers <= 1
    /\ (input.wellFormed /\ rq.ret \in {"json", "formData"} /\ g.pc = "done")
          => rq.result = ResultOf(FieldsOf(input.parts))

\* formData() has returned the five-part body's three fields, after files()
\* has given the first file only
C7_Witness ==
    /\ rq.first = "files" /\ rq.handed = 1 /\ rq.ret = "formData" /\ g.pc = "done"
    /\ Len(rq.result) = 3 /\ Len(g.entries) = 5

\* C8: json() or formData(), called first on a well-formed multipart body
\* with files, ends without error, with the fields of the body for result.
C8_FilesSkippedWithoutError ==
    (input.wellFormed /\ rq.first \in {"json", "formData"} /\ rq.done)
        => /\ rq.ret # "error"
           /\ rq.result = ResultOf(FieldsOf(input.parts))

\* ------------------------------------------------------------------------
\* The end of the body stream. The parser is run on a body of a field and a
\* file with several texts behind the closing delimiter, and the stream may
\* end at any moment before the parser has passed the closing delimiter.
\*   input.tail   the bytes behind the closing delimiter
\*   input.cut    the stream has ended before the closing delimiter
\* ------------------------------------------------------------------------
EndParts == <<PartA, PartB>>
\* space CR LF tab
TailBlank == <<C_SPACE, C_CR, C_LF, C_TAB>>
\* CR LF space x tab
TailData == <<C_CR, C_LF, C_SPACE, 120, C_TAB>>
Tails == {<< >>, TailBlank, TailData}

CaseTail(tail) ==
    [body |-> EncodeBody(PreambleP, EndParts, TokenBY, tail), boundary |-> TokenBY,
     input |-> [parts |-> EndParts, preambleLen |-> Len(PreambleP),
                wellFormed |-> \A k \in 1..Len(tail) : IsSpaceByte(tail[k]),
                tail |-> tail, cut |-> FALSE]]

InitEnds ==
    \E tail \in Tails :
        /\ body = CaseTail(tail).body
        /\ boundaryBytes = CaseTail(tail).boundary
        /\ input = CaseTail(tail).input
        /\ g = GenInit
        /\ lastOp = "Init"
        /\ canon = TRUE
        /\ rq = NoRequest

\* The body stream ends, having delivered only a part of the body, and
\* reports its end to the read that is awaited: the body is what was delivered
StreamEnds ==
    /\ AwaitsRead(g)
    /\ g.pc # "epilogue"
    /\ Remaining(g) > 0
    /\ ReadSpace(g) > 0
    /\ body' = SubSeq(body, 1, g.pos)
    /\ input' = [input EXCEPT !.cut = TRUE, !.wellFormed = FALSE]
    /\ LET p == Resumed(rq, ReadEnd(g), TRUE)
       IN  g' = p.g /\ rq' = p.rq
    /\ lastOp' = "StreamEnds"
    /\ UNCHANGED <<boundaryBytes, canon>>

NextEnds == Advance \/ Read \/ ReadEof \/ ReadZero \/ FileRead \/ FileCancel \/ StreamEnds

SpecEnds == InitEnds /\ [][NextEnds]_vars

\* The parse has failed with e, or the file's stream has (its read or its
\* cancel has rejected with e)
FailedWith(s, e) ==
    \/ s.pc = "failed" /\ s.err = e
    \/ s.fstream \in {"errored", "cancelled"} /\ s.ferr = e

\* C11: when the body stream ends before the parser has passed the closing
\* delimiter (before the first boundary line, inside the headers of a part, or
\* inside the payload of a field or of a file), the read that meets the end
\* fails with 'Incomplete multipart body', of the parse or of the file's
\* stream, and yields nothing; and of such a stream the parse never ends
\* normally, and every string field that was yielded is a part of the body
\* whose terminating boundary the stream has delivered.
C11_PrematureEndFails ==
    [][/\ (lastOp' = "StreamEnds" \/ (lastOp' = "ReadEof" /\ g.pc # "epilogue"))
            => /\ FailedWith(g', "Incomplete multipart body")
               /\ g'.entries = g.entries
       /\ input'.cut
            => /\ g'.pc # "done"
               /\ \A k \in 1..Len(g'.entries) :
                     ~g'.entries[k].isFile
                        => /\ k <= Len(input.parts)
                           /\ ~input.parts[k].hasFilename
                           /\ g'.entries[k].value = input.parts[k].payload
                           /\ PartEnd(input.parts, boundaryBytes, input.preambleLen, k) <= Len(body')
      ]_vars

\* The stream has ended inside the headers of the second part, behind the
\* first field
C11_Witness ==
    /\ lastOp = "StreamEnds"
    /\ g.pc = "failed" /\ g.err = "Incomplete multipart body"
    /\ Len(g.entries) = 1
    /\ Len(body) > PartEnd(input.parts, boundaryBytes, input.preambleLen, 1)
    /\ Len(body) < PartEnd(input.parts, boundaryBytes, input.preambleLen, 1) + Len(EncodeHeaders(PartB))

\* The offset in body behind the closing delimiter
TailStart == PartEnd(input.parts, boundaryBytes, input.preambleLen, Len(input.parts))

\* The bytes behind the closing delimiter that the stream has delivered
TailDelivered(s) == SubSeq(body, TailStart + 1, MaxOf(TailStart, s.pos))

AllBlank(bytes) == \A k \in 1..Len(bytes) : IsSpaceByte(bytes[k])

\* C12: of a stream that does not end before the closing delimiter, no more
\* entries are yielded than the body has parts before the closing delimiter,
\* and all of them have been yielded when the parser looks at the bytes behind
\* it; while the parser awaits more of these bytes, all that were delivered
\* are CR, LF, space or tab; when it has failed with 'Invalid data after end
\* of multipart body', one of the delivered bytes is another byte; when the
\* stream reports its end to this read the parse ends normally, and the parse
\* ends normally only with the whole body delivered and all bytes behind the
\* closing delimiter CR, LF, space or tab.
C12_OnlyBlanksBehindClosingDelimiter ==
    [][~input'.cut
          => /\ Len(g'.entries) <= Len(input.parts)
             /\ g'.pc = "epilogue"
                  => /\ Len(g'.entries) = Len(input.parts)
                     /\ g'.pos >= TailStart
                     /\ AllBlank(TailDelivered(g'))
             /\ (g'.pc = "failed" /\ g'.err = "Invalid data after end of multipart body")
                  => /\ Len(g'.entries) = Len(input.parts)
                     /\ ~AllBlank(TailDelivered(g'))
             /\ g'.pc = "done"
                  => /\ g'.pos = Len(body)
                     /\ AllBlank(input.tail)
                     /\ Len(g'.entries) = Len(input.parts)
             /\ (g.pc = "epilogue" /\ lastOp' = "ReadEof")
                  => g'.pc = "done" /\ g'.entries = g.entries
             /\ (g.pc = "epilogue" /\ lastOp' = "Read")
                  => /\ g'.pc = (IF AllBlank(TailDelivered(g')) THEN "epilogue" ELSE "failed")
                     /\ g'.entries = g.entries
      ]_vars

\* The parse has failed at the x of the bytes CR LF space x tab, which were
\* delivered one by one, before the tab was delivered
C12_Witness ==
    /\ input.tail = TailData
    /\ g.pc = "failed" /\ g.err = "Invalid data after end of multipart body"
    /\ g.pos = TailStart + 4
    /\ lastOp = "Read"

\* ------------------------------------------------------------------------
\* The failures of the parser. The parser is run on bodies that each have one
\* fault, and on a well-formed body of a field and a file; the stream may end
\* early on each of them.
\*   input.fault   the fault of the body
\* ------------------------------------------------------------------------
\* --bY CRLF
FirstLine == Dashes \o TokenBY \o CRLF
\* v1 CRLF --bY--
ValueAndEnd == PartA.payload \o CRLF \o Dashes \o TokenBY \o Dashes
\* Content-Disposition: form-data; name="a"
DispositionA == StrDispositionHead \o PartA.name \o <<C_QT>>

\* The body with the fault: a header line without a colon (Xyz), a header
\* line that starts with ':' or with LF, a CR without LF behind a header value
\* or in the empty line, a value with no CRLF between it and the boundary
FaultBody(fault) ==
    CASE fault = "noColon"      -> FirstLine \o <<88, 121, 122>> \o CRLF \o CRLF \o ValueAndEnd
      [] fault = "leadingColon" -> FirstLine \o <<C_COLON, 120>> \o CRLF \o CRLF \o ValueAndEnd
      [] fault = "leadingLf"    -> FirstLine \o <<C_LF>> \o DispositionA \o CRLF \o CRLF \o ValueAndEnd
      [] fault = "valueCr"      -> FirstLine \o DispositionA \o <<C_CR, 120>> \o CRLF \o ValueAndEnd
      [] fault = "emptyLineCr"  -> FirstLine \o DispositionA \o CRLF \o <<C_CR, 120>> \o ValueAndEnd
      [] fault = "noCrlf"       -> FirstLine \o EncodeHeaders(PartA) \o PartA.payload
                                      \o Dashes \o TokenBY \o Dashes
      [] fault = "boundary"     -> EncodeBody(<< >>, <<PartA>>, << >>, << >>)
      [] OTHER                  -> EncodeBody(PreambleP, EndParts, TokenBY, << >>)

Faults == {"noColon", "leadingColon", "leadingLf", "valueCr", "emptyLineCr", "noCrlf",
           "boundary", "none"}

InitFaults ==
    \E fault \in Faults :
        /\ body = FaultBody(fault)
        /\ boundaryBytes = (IF fault = "boundary" THEN << >> ELSE TokenBY)
        /\ input = [parts |-> (IF fault = "none" THEN EndParts ELSE << >>),
                    preambleLen |-> (IF fault = "none" THEN Len(PreambleP) ELSE 0),
                    wellFormed |-> fault = "none", tail |-> << >>, cut |-> FALSE,
                    fault |-> fault]
        /\ g = GenInit
        /\ lastOp = "Init"
        /\ canon = TRUE
        /\ rq = NoRequest

SpecFaults == InitFaults /\ [][NextEnds]_vars

\* The classes of failure: of the boundary, of a header, of a CR without LF in
\* the headers, of a value without CRLF before the boundary, of a stream that
\* ends before the first boundary line or behind it, of a file not read
FailureClasses ==
    {"boundary", "header", "pairingHeader", "pairingBody", "endBeforeFirst", "endInside",
     "misuse"}

\* The class of the failure of the parse in state s, by what is wrong with the
\* input and with the consumer
FailureClass(s) ==
    IF input.fault = "boundary" THEN "boundary"
    ELSE IF input.cut
    THEN IF Len(body) < input.preambleLen + Len(FirstLine) THEN "endBeforeFirst" ELSE "endInside"
    ELSE IF s.fstream = "open" THEN "misuse"
    ELSE IF input.fault \in {"noColon", "leadingColon", "leadingLf"} THEN "header"
    ELSE IF input.fault \in {"valueCr", "emptyLineCr"} THEN "pairingHeader"
    ELSE IF input.fault = "noCrlf" THEN "pairingBody"
    ELSE "none"

\* The message of the Error that is thrown for a failure of class c
Identity(c) ==
    CASE c = "boundary"       -> "Invalid boundary"
      [] c = "header"         -> "Invalid header"
      [] c = "pairingHeader"  -> "Invalid header"
      [] c = "pairingBody"    -> "Invalid multipart body"
      [] c = "endBeforeFirst" -> "Incomplete multipart body"
      [] c = "endInside"      -> "Incomplete multipart body"
      [] c = "misuse"         -> MsgUndrained
      [] OTHER                -> ""

\* The classes as the messages tell them apart: a CR without LF in the headers
\* counts as a malformed header, and the stream has one way to end early
Group(c) ==
    CASE c = "pairingHeader" -> "header"
      [] c = "endBeforeFirst" -> "end"
      [] c = "endInside" -> "end"
      [] OTHER -> c

\* The classes as they are listed: a missing CRLF pairing is one class
Listed(c) ==
    CASE c = "pairingHeader" -> "pairing"
      [] c = "pairingBody" -> "pairing"
      [] OTHER -> c

\* The parse has failed, and no read of a file's stream has failed before
FirstFailure(s) == s.pc = "failed" /\ ~s.cancelled

URLENCODED_BUFFER_LEN == 8192
REALLOC_THRESHOLD == 512
C_AMP == 38
C_PLUS == 43
C_PERCENT == 37
C_ZERO == 48
C_NINE == 57
C_A_CAP == 65
C_F_CAP == 70
C_A_LOW == 97

\* ------------------------------------------------------------------------
\* decodeUriComponentInplace(buffer, start, end)
\*   d.buffer, d.start, d.i   buffer, start (where the next decoded byte is
\*                            written) and i (the next byte to decode)
\*   d.from, d.end            the span that is decoded
\* ------------------------------------------------------------------------
\* a | b of two bytes
RECURSIVE BitOr(_, _)
BitOr(a, b) ==
    IF a = 0 THEN b
    ELSE IF b = 0 THEN a
    ELSE 2 * BitOr(a \div 2, b \div 2) + (IF a % 2 = 1 \/ b % 2 = 1 THEN 1 ELSE 0)

\* (variant: the value of an upper-case digit is taken as that of a lower-case one)
HexDigitNoCaps(d) ==
    IF d <= C_NINE THEN d - C_ZERO ELSE d - (C_A_LOW - 10)

\* d1<=C_NINE ? d1-C_ZERO : d1<=C_F_CAP ? d1-(C_A_CAP-10) : d1-(C_A_LOW-10)
HexDigit(d) ==
    IF d <= C_NINE THEN d - C_ZERO
    ELSE IF d <= C_F_CAP THEN d - (C_A_CAP - 10)
    ELSE d - (C_A_LOW - 10)

\* What buffer[start++] = (d1<<4) | d2 stores: the low 8 bits
PercentByte(d1, d2) == BitOr((HexDigit(d1) * 16) % 256, HexDigit(d2) % 256)

NewDecode(buffer, start, end) ==
    [buffer |-> buffer, start |-> start, i |-> start, from |-> start, end |-> end]

\* (variant: the write position is advanced before the store, buffer[++start])
DecodeTurnPreIncrement(d) ==
    LET c == At(d.buffer, d.i)
        b == IF c = C_PLUS THEN C_SPACE
             ELSE IF c = C_PERCENT /\ d.i + 2 < d.end
             THEN PercentByte(At(d.buffer, d.i + 1), At(d.buffer, d.i + 2))
             ELSE c
    IN  [d EXCEPT !.buffer = StoreAt(d.buffer, d.start + 1, <<b>>),
                  !.start = d.start + 1,
                  !.i = IF c = C_PERCENT /\ d.i + 2 < d.end THEN d.i + 3 ELSE d.i + 1]

\* One turn of while (i < end)
DecodeTurn(d) ==
    LET c == At(d.buffer, d.i)
    IN  IF c = C_PLUS
        THEN [d EXCEPT !.buffer = StoreAt(d.buffer, d.start, <<C_SPACE>>),
                       !.start = d.start + 1, !.i = d.i + 1]
        ELSE IF c = C_PERCENT /\ d.i + 2 < d.end
        THEN [d EXCEPT !.buffer = StoreAt(d.buffer, d.start,
                                     <<PercentByte(At(d.buffer, d.i + 1), At(d.buffer, d.i + 2))>>),
                       !.start = d.start + 1, !.i = d.i + 3]
        ELSE [d EXCEPT !.buffer = StoreAt(d.buffer, d.start, <<c>>),
                       !.start = d.start + 1, !.i = d.i + 1]

RECURSIVE DecodeLoop(_)
DecodeLoop(d) == IF d.i < d.end THEN DecodeLoop(DecodeTurn(d)) ELSE d

\* The buffer and the returned index (start) after the call
decodeUriComponentInplace(buffer, start, end) == DecodeLoop(NewDecode(buffer, start, end))

\* ------------------------------------------------------------------------
\* decodeUriComponentInplace, run turn by turn on the spans of at most MaxSpan
\* bytes over: % + a 4 F c z, that lie in a buffer behind "a&" and before "=a"
\* ------------------------------------------------------------------------
MaxSpan == 4

SpanBytes == {C_PERCENT, C_PLUS, C_A_LOW, 52, C_F_CAP, 99, 122}
Spans == UNION {[1..n -> SpanBytes] : n \in 0..MaxSpan}
SpanPrefix == <<C_A_LOW, C_AMP>>
SpanSuffix == <<C_EQ, C_A_LOW>>

InitDecode ==
    \E span \in Spans :
        /\ body = span
        /\ boundaryBytes = << >>
        /\ input = [prefix |-> SpanPrefix, suffix |-> SpanSuffix]
        /\ g = [pc |-> "decode",
                d |-> NewDecode(SpanPrefix \o span \o SpanSuffix, Len(SpanPrefix),
                                Len(SpanPrefix) + Len(span))]
        /\ lastOp = "Init"
        /\ canon = TRUE
        /\ rq = NoRequest

\* while (i < end): one turn
DecodeStep ==
    /\ g.pc = "decode"
    /\ g.d.i < g.d.end
    /\ g' = [g EXCEPT !.d = DecodeTurn(g.d)]
    /\ lastOp' = "DecodeStep"
    /\ UNCHANGED <<body, boundaryBytes, input, canon, rq>>

\* return start
DecodeReturn ==
    /\ g.pc = "decode"
    /\ g.d.i >= g.d.end
    /\ g' = [g EXCEPT !.pc = "returned"]
    /\ lastOp' = "DecodeReturn"
    /\ UNCHANGED <<body, boundaryBytes, input, canon, rq>>

NextDecode == DecodeStep \/ DecodeReturn

SpecDecode == InitDecode /\ [][NextDecode]_vars

\* The decoded bytes: buffer.subarray(from, start)
Decoded(d) == Sub(d.buffer, d.from, d.start)

\* A hexadecimal digit, and its value
IsHex(c) == (c >= 48 /\ c <= 57) \/ (c >= 65 /\ c <= 70) \/ (c >= 97 /\ c <= 102)
HexValue(c) == IF c <= 57 THEN c - 48 ELSE IF c <= 70 THEN c - 55 ELSE c - 87

\* Every '%' of the span is followed by two hexadecimal digits
WellEscaped(span) ==
    \A k \in 1..Len(span) :
        span[k] = 37 => k + 2 <= Len(span) /\ IsHex(span[k + 1]) /\ IsHex(span[k + 2])

\* The reference decoding: '+' is a space, '%' with two hexadecimal digits is
\* the byte they name, every other byte is itself
RECURSIVE Reference(_)
Reference(span) ==
    IF span = << >> THEN << >>
    ELSE IF span[1] = 43 THEN <<32>> \o Reference(Tail(span))
    ELSE IF span[1] = 37 /\ Len(span) >= 3 /\ IsHex(span[2]) /\ IsHex(span[3])
    THEN <<16 * HexValue(span[2]) + HexValue(span[3])>> \o Reference(SubSeq(span, 4, Len(span)))
    ELSE <<span[1]>> \o Reference(Tail(span))

\* C16: when every '%' of a span is followed by two hexadecimal digits, the
\* bytes that decodeUriComponentInplace leaves in [start, returned index) are
\* the reference decoding of the span: every '+' a space, every %XX the byte
\* with the hexadecimal value XX (digits of either case), every other byte
\* unchanged.
C16_DecodesValidEscapes ==
    (g.pc = "returned" /\ WellEscaped(body)) => Decoded(g.d) = Reference(body)

\* %4F+ was decoded to "O "
C16_Witness ==
    /\ g.pc = "returned"
    /\ body = <<37, 52, 70, 43>>
    /\ Decoded(g.d) = <<79, 32>>

\* C17: a '%' that is not followed by two hexadecimal digits is passed on as
\* it is, with the bytes that follow it: the decoding of every span is its
\* reference decoding.
C17_MalformedEscapeLiteral ==
    g.pc = "returned" => Decoded(g.d) = Reference(body)

\* ------------------------------------------------------------------------
\* parseFormUrlencoded(body, charset): the generator
\*   pc           "start" (not started), "read" (awaits reader.read),
\*                "yielded" (suspended at a yield), "done" (returned)
\*   buffer, cap  buffer (up to the last byte stored) and buffer.length
\*   i            the index from which the search goes on after the read
\*   entries      the entries yielded: hasValue says that the entry has a
\*                value. A string is held as the bytes that decoder.decode
\*                was given (it is given the whole name or value at once).
\*   pos          the bytes of body that the reader has delivered
\* ------------------------------------------------------------------------
UrlencodedInit ==
    [pc |-> "start", buffer |-> << >>, cap |-> URLENCODED_BUFFER_LEN,
     bufferStart |-> 0, bufferEnd |-> 0, name |-> << >>, state |-> "NAME",
     isEof |-> FALSE, i |-> 0, entries |-> << >>, pos |-> 0, locked |-> TRUE]

bufferIndexOfOneOf2(b, start, end, b0, b1) ==
    LET hits == {p \in start..(end - 1) : At(b, p) \in {b0, b1}}
    IN  IF hits = {} THEN -1 ELSE Min(hits)

\* if (bufferEnd+REALLOC_THRESHOLD > buffer.length): move the data to the
\* start of the buffer, and double the buffer if that has not made room
MakeRoom(s) ==
    IF s.bufferEnd + REALLOC_THRESHOLD > s.cap
    THEN LET s1 == IF s.bufferStart # 0
                   THEN [s EXCEPT !.buffer = CopyWithin0(s.buffer, s.bufferStart, s.bufferEnd),
                                  !.bufferEnd = s.bufferEnd - s.bufferStart,
                                  !.bufferStart = 0]
                   ELSE s
         IN  IF s1.bufferEnd + REALLOC_THRESHOLD > s1.cap
             THEN [s1 EXCEPT !.buffer = Sub(s1.buffer, 0, s1.bufferEnd), !.cap = s1.cap * 2]
             ELSE s1
    ELSE s

RECURSIVE UrlencodedScan(_, _)

\* 2. Read param name (if State.NAME) or value (if State.VALUE): i is the
\* index of the '=' or '&' found, or bufferEnd at the end of the stream
UrlencodedSegment(s, i) ==
    LET d   == decodeUriComponentInplace(s.buffer, s.bufferStart, i)
        str == Sub(d.buffer, s.bufferStart, d.start)
        s1  == [s EXCEPT !.buffer = d.buffer, !.bufferStart = i + 1]
    IN  IF i < s.bufferEnd /\ At(d.buffer, i) = C_EQ
        THEN UrlencodedScan([s1 EXCEPT !.name = str, !.state = "VALUE"], i + 1)
        ELSE [s1 EXCEPT !.pc = "yielded",
                        !.entries = Append(@, IF s.state = "NAME"
                                              THEN [name |-> str, hasValue |-> FALSE, value |-> << >>]
                                              ELSE [name |-> s.name, hasValue |-> TRUE, value |-> str])]

\* (variant: the search for the end of a value stops at '=' as well)
UrlencodedScanAnyDelimiter(s, i) ==
    LET found == bufferIndexOfOneOf2(s.buffer, i, s.bufferEnd, C_EQ, C_AMP)
    IN  IF found # -1 THEN UrlencodedSegment(s, found)
        ELSE LET s1 == MakeRoom(s)
             IN  [s1 EXCEPT !.i = s1.bufferEnd, !.pc = "read"]

\* 1. Set "i" to index of EQ or AMP: the search from index i, up to the
\* next read
UrlencodedScan(s, i) ==
    LET found == IF s.state = "NAME"
                 THEN bufferIndexOfOneOf2(s.buffer, i, s.bufferEnd, C_EQ, C_AMP)
                 ELSE IndexOfByte(s.buffer, s.bufferEnd, C_AMP, i)
    IN  IF found # -1 THEN UrlencodedSegment(s, found)
        ELSE LET s1 == MakeRoom(s)
             IN  [s1 EXCEPT !.i = s1.bufferEnd, !.pc = "read"]

\* next() of the generator: from the start, or behind a yield
\* (state = State.NAME behind the yield of a value; if (isEof) break)
UrlencodedAdvanced(s) ==
    IF s.pc = "start" THEN UrlencodedScan(s, s.bufferStart)
    ELSE LET s1 == [s EXCEPT !.state = "NAME"]
         IN  IF s.isEof THEN [s1 EXCEPT !.pc = "done", !.locked = FALSE]
             ELSE UrlencodedScan(s1, s1.bufferStart)

\* (variant: behind a read the search goes on behind the first new byte)
UrlencodedReadDoneSkipping(s, chunk) ==
    UrlencodedScan([s EXCEPT !.buffer = StoreAt(s.buffer, s.bufferEnd, chunk),
                             !.bufferEnd = s.bufferEnd + Len(chunk),
                             !.pos = s.pos + Len(chunk)], s.i + 1)

\* The awaited read has delivered the bytes chunk
UrlencodedReadDone(s, chunk) ==
    UrlencodedScan([s EXCEPT !.buffer = StoreAt(s.buffer, s.bufferEnd, chunk),
                             !.bufferEnd = s.bufferEnd + Len(chunk),
                             !.pos = s.pos + Len(chunk)], s.i)

\* The awaited read has reported the end of the stream: isEof = true
UrlencodedReadEnd(s) == UrlencodedSegment([s EXCEPT !.isEof = TRUE], s.i)

\* ------------------------------------------------------------------------
\* The parser run on the bodies of at most MaxTokens of the texts
\* a = & + %3D (an escaped '=') % and the two bytes of U+00E9
\* ------------------------------------------------------------------------
MaxTokens == 4

UrlencodedTokens ==
    {<<C_A_LOW>>, <<C_EQ>>, <<C_AMP>>, <<C_PLUS>>, <<C_PERCENT, 51, 68>>, <<C_PERCENT>>,
     <<195, 169>>}

RECURSIVE Flat(_)
Flat(texts) == IF texts = << >> THEN << >> ELSE texts[1] \o Flat(Tail(texts))

UrlencodedBodies ==
    {Flat(texts) : texts \in UNION {[1..n -> UrlencodedTokens] : n \in 0..MaxTokens}}

InitUrlencoded ==
    \E b \in UrlencodedBodies :
        /\ body = b
        /\ boundaryBytes = << >>
        /\ input = [type |-> "application/x-www-form-urlencoded"]
        /\ g = UrlencodedInit
        /\ lastOp = "Init"
        /\ canon = TRUE
        /\ rq = NoRequest

\* The consumer asks the generator for the next entry
UrlencodedAdvance ==
    /\ g.pc \in {"start", "yielded"}
    /\ g' = UrlencodedAdvanced(g)
    /\ lastOp' = "Advance"
    /\ UNCHANGED <<body, boundaryBytes, input, canon, rq>>

\* The body stream delivers its next n bytes to the read that is awaited
UrlencodedRead ==
    /\ g.pc = "read"
    /\ g.pos < Len(body)
    /\ LET most == MinOf(Len(body) - g.pos, g.cap - g.bufferEnd)
       IN  \E n \in {k \in 1..MaxChunk : k <= most} \cup {most} :
              g' = UrlencodedReadDone(g, SubSeq(body, g.pos + 1, g.pos + n))
    /\ lastOp' = "Read"
    /\ UNCHANGED <<body, boundaryBytes, input, canon, rq>>

\* The body stream reports its end to the read that is awaited
UrlencodedReadEof ==
    /\ g.pc = "read"
    /\ g.pos = Len(body)
    /\ g' = UrlencodedReadEnd(g)
    /\ lastOp' = "ReadEof"
    /\ UNCHANGED <<body, boundaryBytes, input, canon, rq>>

NextUrlencoded == UrlencodedAdvance \/ UrlencodedRead \/ UrlencodedReadEof

SpecUrlencoded == InitUrlencoded /\ [][NextUrlencoded]_vars

\* The segments of bytes between the bytes c
RECURSIVE SplitAt(_, _)
SplitAt(bytes, c) ==
    IF \A k \in 1..Len(bytes) : bytes[k] # c THEN <<bytes>>
    ELSE LET k == Min({p \in 1..Len(bytes) : bytes[p] = c})
         IN  <<SubSeq(bytes, 1, k - 1)>> \o SplitAt(SubSeq(bytes, k + 1, Len(bytes)), c)

\* The decoding of a name or value that stands alone
DecodedSpan(span) == Decoded(decodeUriComponentInplace(span, 0, Len(span)))

\* The entry of a segment: the first '=' parts the name from the value
EntryOf(seg) ==
    IF \A k \in 1..Len(seg) : seg[k] # C_EQ
    THEN [name |-> DecodedSpan(seg), hasValue |-> FALSE, value |-> << >>]
    ELSE LET k == Min({p \in 1..Len(seg) : seg[p] = C_EQ})
         IN  [name |-> DecodedSpan(SubSeq(seg, 1, k - 1)), hasValue |-> TRUE,
              value |-> DecodedSpan(SubSeq(seg, k + 1, Len(seg)))]

EntriesOf(bytes) ==
    LET segs == SplitAt(bytes, C_AMP) IN [k \in 1..Len(segs) |-> EntryOf(segs[k])]

\* What is left to do: the bytes to deliver, the entries to yield, and the
\* steps from the place of the generator to its next read, yield or return
StepsLeft(s) ==
    4 * (Len(body) - s.pos) + 4 * (Len(EntriesOf(body)) - Len(s.entries))
      + (CASE s.pc = "start" -> 3 [] s.pc = "yielded" -> 2 [] s.pc = "read" -> 1 [] OTHER -> 0)

\* C14: the entries yielded are at every moment the entries of the first
\* '&'-separated segments of the body, one per segment and in their order,
\* and all of them when the parser has returned (as many as the body has '&',
\* plus one; the one entry {name: ''} for the empty body); the entry of a
\* segment has the decoded bytes before the first '=' as name and the decoded
\* bytes behind it (further '=' included) as value, and has no value exactly
\* when the segment has no '='. The parse terminates: every step of the
\* parser, of the stream and of the consumer lessens StepsLeft, which is never
\* negative, and until the parser has returned it is never stuck (it is at a
\* yield or before its start, where the consumer can go on, or it awaits a
\* read with a view that has room, which the stream answers with bytes or
\* with its end).
C14_OneEntryPerSegment ==
    [][/\ IsPrefix(g'.entries, EntriesOf(body))
       /\ g'.pc = "done"
             => /\ g'.entries = EntriesOf(body)
                /\ Len(g'.entries) = Cardinality({k \in 1..Len(body) : body[k] = C_AMP}) + 1
       /\ StepsLeft(g') < StepsLeft(g)
       /\ StepsLeft(g') >= 0
       /\ g'.pc \in {"start", "yielded", "read", "done"}
       /\ g'.pc = "read" => g'.cap - g'.bufferEnd >= 1 /\ g'.pos <= Len(body)
      ]_vars

\* The parser has returned behind a==&: the first '=' has parted the name
\* from the value "=", and the empty segment behind '&' is a name with no value
C14_Witness ==
    /\ g.pc = "done"
    /\ body = <<97, 61, 61, 38>>
    /\ g.entries = <<[name |-> <<97>>, hasValue |-> TRUE, value |-> <<61>>],
                     [name |-> << >>, hasValue |-> FALSE, value |-> << >>]>>

\* The entries of the parser when the stream delivers bytes as one chunk
RECURSIVE UrlencodedUnchunked(_, _)
UrlencodedUnchunked(s, bytes) ==
    IF s.pc = "done" THEN s.entries
    ELSE IF s.pc = "read"
    THEN IF s.pos < Len(bytes) THEN UrlencodedUnchunked(UrlencodedReadDone(s, bytes), bytes)
         ELSE UrlencodedUnchunked(UrlencodedReadEnd(s), bytes)
    ELSE UrlencodedUnchunked(UrlencodedAdvanced(s), bytes)

\* C15: however the stream cuts the body into chunks, the entries yielded
\* are at every moment the first entries that the parser yields when the body
\* arrives as one chunk, and all of them when the parser has returned.
C15_ChunkingIndependent ==
    LET whole == UrlencodedUnchunked(UrlencodedInit, body)
    IN  /\ IsPrefix(g.entries, whole)
        /\ g.pc = "done" => g.entries = whole

\* Of the body a=%3D and the two bytes of U+00E9, the chunks delivered end
\* inside the character: the parser has the name and awaits the next read
C15_Witness ==
    /\ body = <<97, 61, 37, 51, 68, 195, 169>>
    /\ g.pc = "read" /\ g.pos = 6
    /\ g.state = "VALUE" /\ g.name = <<97>>

\* ------------------------------------------------------------------------
\* setSearchParamJson, called at most MaxCalls times on one target
\*   g.obj     the target
\*   g.ok      what the last call has returned
\*   g.calls   the names of the calls; call i has given the value v<i>
\* ------------------------------------------------------------------------
MaxCalls == 3

\* k, k[], k[0], k[1], k[2], a[b][], a[b][0], a[b][1], a[][], and
\* a, a[b], k[x], k[x (no ']'), a[b][0 (no second ']'), k[x]y[z (text and an
\* unclosed '[' behind the ']')
NameK == <<107>>
NameKAppend == <<107, 91, 93>>
NameKIndex(n) == <<107, 91, 48 + n, 93>>
NameABAppend == <<97, 91, 98, 93, 91, 93>>
NameABIndex(n) == <<97, 91, 98, 93, 91, 48 + n, 93>>
NameAAppendAppend == <<97, 91, 93, 91, 93>>
NameA == <<97>>
NameAB == <<97, 91, 98, 93>>
NameKX == <<107, 91, 120, 93>>
NameKXOpen == <<107, 91, 120>>
NameABOpen == <<97, 91, 98, 93, 91, 48>>
NameKXTail == <<107, 91, 120, 93, 121, 91, 122>>
ParamNames ==
    {NameK, NameKAppend, NameABAppend, NameAAppendAppend}
       \cup {NameKIndex(n) : n \in 0..2} \cup {NameABIndex(n) : n \in 0..1}
       \cup {NameA, NameAB, NameKX, NameKXOpen, NameABOpen, NameKXTail}

\* The value of call i: the text v<i>
ParamValue(i) == JString(<<118>> \o DecimalString(i))

\* The targets: {} and {z: 's'}
Targets == {NewObject, JObject(<< <<122>> >>, <<JString(<<115>>)>>)}

InitJson ==
    \E target \in Targets :
        /\ body = << >>
        /\ boundaryBytes = << >>
        /\ input = [target |-> target]
        /\ g = [pc |-> "json", obj |-> target, ok |-> TRUE, calls |-> << >>]
        /\ lastOp = "Init"
        /\ canon = TRUE
        /\ rq = NoRequest

\* setSearchParamJson(obj, name, value)
SetParam ==
    /\ g.pc = "json"
    /\ Len(g.calls) < MaxCalls
    /\ \E name \in ParamNames :
          LET r == setSearchParamJson(g.obj, name, ParamValue(Len(g.calls) + 1))
          IN  g' = [g EXCEPT !.obj = r.obj, !.ok = r.ok, !.calls = Append(@, name)]
    /\ lastOp' = "SetParam"
    /\ UNCHANGED <<body, boundaryBytes, input, canon, rq>>

NextJson == SetParam

SpecJson == InitJson /\ [][NextJson]_vars

\* The value found by following keys from v
RECURSIVE GetPath(_, _)
GetPath(v, keys) ==
    IF keys = << >> THEN v ELSE GetPath(GetSub(v, StrSub(keys[1])), Tail(keys))

\* The calls (their numbers) whose name starts with the byte c, and those
\* with the name name
CallsOn(c) == {i \in 1..Len(g.calls) : g.calls[i][1] = c}
CallsOf(name) == {i \in 1..Len(g.calls) : g.calls[i] = name}

\* The values of the calls in the set idx, in the order of the calls
ValuesOfCalls(idx) ==
    [j \in 1..Cardinality(idx) |->
        ParamValue(CHOOSE i \in idx : Cardinality({m \in idx : m <= i}) = j)]

\* C18: when the calls that name k are all k[]=v, on a target that had no key
\* k, target.k is the array of their values in the order of the calls; in the
\* same way a[b][]=v gives the array at a.b; and when the calls that name a
\* are all a[][]=v, target.a is the array of the one-element arrays [v], one
\* per call.
C18_EmptyBracketsAppend ==
    /\ (CallsOn(107) # {} /\ CallsOn(107) = CallsOf(NameKAppend))
          => GetPath(g.obj, <<NameK>>) = JArray(ValuesOfCalls(CallsOn(107)))
    /\ (CallsOn(97) # {} /\ CallsOn(97) = CallsOf(NameABAppend))
          => /\ GetPath(g.obj, << <<97>> >>).kind = "object"
             /\ GetPath(g.obj, << <<97>>, <<98>> >>) = JArray(ValuesOfCalls(CallsOn(97)))
    /\ (CallsOn(97) # {} /\ CallsOn(97) = CallsOf(NameAAppendAppend))
          => GetPath(g.obj, << <<97>> >>)
                = JArray([j \in 1..Cardinality(CallsOn(97)) |->
                             JArray(<<ValuesOfCalls(CallsOn(97))[j]>>)])

\* Three calls k[]=v1, k[]=v2, k[]=v3 have made the array [v1, v2, v3]
C18_Witness ==
    /\ g.calls = <<NameKAppend, NameKAppend, NameKAppend>>
    /\ GetPath(g.obj, <<NameK>>) = JArray(<<ParamValue(1), ParamValue(2), ParamValue(3)>>)

\* The calls in idx are k[0], k[1], ... in this order (n says which name has
\* the index n)
InIndexOrder(idx, n(_)) ==
    \A i \in idx : g.calls[i] = n(Cardinality({m \in idx : m < i}))

\* C19: when the calls that name k are k[0]=v0, k[1]=v1, ... in increasing
\* order from 0, target.k is the array of their values, as with k[]; with a
\* gap or another order it is an object.
C19_SequentialIndicesMakeArray ==
    (CallsOn(107) # {} /\ CallsOn(107) \cap CallsOf(NameK) = {}
        /\ CallsOn(107) \cap CallsOf(NameKAppend) = {})
       => IF InIndexOrder(CallsOn(107), NameKIndex)
          THEN GetPath(g.obj, <<NameK>>) = JArray(ValuesOfCalls(CallsOn(107)))
          ELSE GetPath(g.obj, <<NameK>>).kind = "object"

\* The last call of name, or 0
LastCallOf(name) == IF CallsOf(name) = {} THEN 0 ELSE Max(CallsOf(name))

CallName == g'.calls[Len(g'.calls)]
CallValue == ParamValue(Len(g'.calls))

\* new is the object that has the items of the array old under the texts of
\* their indices, and v under key (in the place of the item of that index, if
\* key is the text of an index of old)
Demoted(old, new, key, v) ==
    /\ new.kind = "object"
    /\ GetSub(new, StrSub(key)) = v
    /\ \A i \in 1..Len(old.vals) :
          DecimalString(i - 1) # key
             => GetSub(new, StrSub(DecimalString(i - 1))) = old.vals[i]
    /\ Len(new.keys) = Len(old.vals)
          + (IF \E i \in 1..Len(old.vals) : DecimalString(i - 1) = key THEN 0 ELSE 1)

\* The names that address target.k with a segment that has a text, with the
\* text; and those that address target.a.b
KeyedK == {<<NameKIndex(d), <<48 + d>> >> : d \in 0..2} \cup {<<NameKX, <<120>> >>, <<NameKXTail, <<120>> >>}
KeyedAB == {<<NameABIndex(d), <<48 + d>> >> : d \in 0..1}

\* C21: when target.k (or target.a.b) is an array and a call addresses it
\* with a segment that has a text (a text is never the append position), it
\* is replaced by the object that holds every item under the text of its
\* index, and the value under the text, which takes the place of the item of
\* that index if there is one. A container that is an object is not an array
\* after any call, and is still an object after every call whose brackets
\* lead through it.
C21_ArrayDemotionIsPermanent ==
    [][LET kOld == GetPath(g.obj, <<NameK>>)
           kNew == GetPath(g'.obj, <<NameK>>)
           aOld == GetPath(g.obj, <<NameA>>)
           aNew == GetPath(g'.obj, <<NameA>>)
           bOld == GetPath(g.obj, <<NameA, <<98>> >>)
           bNew == GetPath(g'.obj, <<NameA, <<98>> >>)
       IN  /\ \A nk \in KeyedK :
                 (CallName = nk[1] /\ kOld.kind = "array") => Demoted(kOld, kNew, nk[2], CallValue)
           /\ \A nk \in KeyedAB :
                 (CallName = nk[1] /\ bOld.kind = "array") => Demoted(bOld, bNew, nk[2], CallValue)
           /\ kOld.kind = "object" => kNew.kind # "array"
           /\ aOld.kind = "object" => aNew.kind # "array"
           /\ bOld.kind = "object" => bNew.kind # "array"
           /\ (kOld.kind = "object" /\ CallName[1] = 107 /\ CallName \notin {NameK, NameKXOpen})
                 => kNew.kind = "object"
           /\ (aOld.kind = "object" /\ CallName[1] = 97 /\ CallName # NameA)
                 => aNew.kind = "object"
           /\ (bOld.kind = "object" /\ CallName \in {NameABAppend} \cup {NameABIndex(d) : d \in 0..1})
                 => bNew.kind = "object"
      ]_vars

\* k[]=v1 has made the array [v1], k[x]=v2 the object {'0': v1, x: v2}, and
\* k[]=v3 has added to that object the key '2'
C21_Witness ==
    /\ g.calls = <<NameKAppend, NameKX, NameKAppend>>
    /\ GetPath(g.obj, <<NameK>>)
          = JObject(<< <<48>>, <<120>>, <<50>> >>, <<ParamValue(1), ParamValue(2), ParamValue(3)>>)

\* The names without '['
FlatNames == {NameK, NameA}

\* The names of FlatNames that have been called, in the order of their first
\* calls
FirstCalled(calls) ==
    SelectSeq([i \in 1..Len(calls) |->
                  IF \E j \in 1..(i - 1) : calls[j] = calls[i] THEN << >> ELSE calls[i]],
              LAMBDA name : name # << >>)

\* C22: a call with a name without '[' returns true; after it target[name]
\* is the value, whatever was there (nothing, a string, an array or an
\* object); the other keys have the values they had, and the keys are those
\* of before in their order, with the name added behind them if it was not a
\* key. So when all calls have such names, every called name has the value
\* of its last call, and the keys are those of the target followed by the
\* names in the order of their first calls.
C22_FlatNameReplaces ==
    [][/\ CallName \in FlatNames =>
             /\ g'.ok
             /\ GetSub(g'.obj, StrSub(CallName)) = CallValue
             /\ g'.obj.kind = "object"
             /\ g'.obj.keys = IF KeyPlace(g.obj, CallName) # 0 THEN g.obj.keys
                              ELSE Append(g.obj.keys, CallName)
             /\ \A k \in 1..Len(g.obj.keys) :
                   g.obj.keys[k] # CallName => g'.obj.vals[k] = g.obj.vals[k]
       /\ (\A i \in 1..Len(g'.calls) : g'.calls[i] \in FlatNames) =>
             /\ g'.obj.keys = input.target.keys \o FirstCalled(g'.calls)
             /\ \A k \in 1..Len(input.target.keys) : g'.obj.vals[k] = input.target.vals[k]
             /\ \A name \in FlatNames :
                   (\E i \in 1..Len(g'.calls) : g'.calls[i] = name)
                      => GetSub(g'.obj, StrSub(name))
                            = ParamValue(Max({i \in 1..Len(g'.calls) : g'.calls[i] = name}))
      ]_vars

\* k[]=v1 and k[]=v2 have made an array, and k=v3 has put the text v3 in its
\* place
C22_Witness ==
    /\ g.calls = <<NameKAppend, NameKAppend, NameK>>
    /\ g.ok
    /\ GetPath(g.obj, <<NameK>>) = ParamValue(3)

\* C23: when target.k holds a string, k[x]=v puts the object {x: v} in its
\* place, k[d]=v the object {d: v}, and k[]=v the array [v]; nothing of the
\* string is kept, and the call returns true. The same holds one level down:
\* when target.a.b holds a string, a[b][]=v puts the array [v] and a[b][d]=v
\* the object {d: v} in its place; and when target.a holds a string, a[b]=v
\* puts {b: v}, a[b][]=v puts {b: [v]} and a[][]=v puts [[v]] in its place.
C23_StringReplacedByContainer ==
    [][LET kOld == GetPath(g.obj, <<NameK>>)
           kNew == GetPath(g'.obj, <<NameK>>)
           aOld == GetPath(g.obj, <<NameA>>)
           aNew == GetPath(g'.obj, <<NameA>>)
           bOld == GetPath(g.obj, <<NameA, <<98>> >>)
           bNew == GetPath(g'.obj, <<NameA, <<98>> >>)
           v    == CallValue
       IN  /\ kOld.kind = "string" =>
                 /\ CallName = NameKX => (g'.ok /\ kNew = JObject(<< <<120>> >>, <<v>>))
                 /\ CallName = NameKAppend => (g'.ok /\ kNew = JArray(<<v>>))
                 /\ \A d \in 0..2 :
                       CallName = NameKIndex(d) => (g'.ok /\ kNew = JObject(<< <<48 + d>> >>, <<v>>))
           /\ bOld.kind = "string" =>
                 /\ CallName = NameABAppend => (g'.ok /\ bNew = JArray(<<v>>))
                 /\ \A d \in 0..1 :
                       CallName = NameABIndex(d) => (g'.ok /\ bNew = JObject(<< <<48 + d>> >>, <<v>>))
           /\ aOld.kind = "string" =>
                 /\ CallName = NameAB => (g'.ok /\ aNew = JObject(<< <<98>> >>, <<v>>))
                 /\ CallName = NameABAppend => (g'.ok /\ aNew = JObject(<< <<98>> >>, <<JArray(<<v>>)>>))
                 /\ CallName = NameAAppendAppend => (g'.ok /\ aNew = JArray(<<JArray(<<v>>)>>))
      ]_vars

\* k=v1 has stored a string and k[]=v2 has put the array [v2] in its place
C23_Witness ==
    /\ g.calls = <<NameK, NameKAppend>>
    /\ GetPath(g.obj, <<NameK>>) = JArray(<<ParamValue(2)>>)

\* The texts between the '[' at place i of name (counted from 1) and its ']',
\* and between the brackets that follow
RECURSIVE SegmentsFrom(_, _)
SegmentsFrom(name, i) ==
    LET j == CHOOSE c \in (i + 1)..Len(name) :
                 name[c] = 93 /\ \A b \in (i + 1)..(c - 1) : name[b] # 93
    IN  <<SubSeq(name, i + 1, j - 1)>>
           \o (IF j = Len(name) THEN << >> ELSE SegmentsFrom(name, j + 1))

\* key, s1, ..., sn of the name key[s1]...[sn]
PathOf(name) ==
    LET i == CHOOSE c \in 1..Len(name) : name[c] = 91 /\ \A b \in 1..(c - 1) : name[b] # 91
    IN  <<SubSeq(name, 1, i - 1)>> \o SegmentsFrom(name, i)

\* The names key[s1]...[sn] whose segments are not empty
PathNames == {NameKX, NameAB} \cup {NameKIndex(d) : d \in 0..2} \cup {NameABIndex(d) : d \in 0..1}

\* C24: after a call with a name key[s1]...[sn] whose segments are not empty,
\* from whatever the target held, the call has returned true and following
\* key, s1, ..., sn from the target reaches the value of the call.
C24_AssignedPathReachesValue ==
    [][(CallName \in PathNames) =>
          (g'.ok /\ GetPath(g'.obj, PathOf(CallName)) = CallValue)]_vars

\* a[b][]=v1 and a[b][]=v2 have made an array at a.b, and after a[b][1]=v3
\* the path a, b, 1 reaches v3
C24_Witness ==
    /\ g.calls = <<NameABAppend, NameABAppend, NameABIndex(1)>>
    /\ g.ok
    /\ PathOf(NameABIndex(1)) = <<NameA, <<98>>, <<49>> >>
    /\ GetPath(g.obj, <<NameA, <<98>>, <<49>> >>) = ParamValue(3)

\* Every '[' of name has a ']' behind it
AllClosed(name) ==
    \A i \in 1..Len(name) : name[i] = 91 => \E j \in (i + 1)..Len(name) : name[j] = 93

\* C25: a call with a name that has a '[' without a ']' behind it stores the
\* value under the key that stands before that '[' (k[x=v gives k: v, and
\* a[b][0=v gives a.b: v) and returns false; and a call returns true exactly
\* when every '[' of its name has a ']' behind it.
C25_UnclosedBracketReturnsFalse ==
    [][/\ g'.ok <=> AllClosed(CallName)
       /\ CallName = NameKXOpen => GetPath(g'.obj, <<NameK>>) = CallValue
       /\ CallName = NameABOpen => GetPath(g'.obj, <<NameA, <<98>> >>) = CallValue
      ]_vars

\* ------------------------------------------------------------------------
\* SuperUrl (super_url.ts): the search string of the URL and the cache of
\* searchParamsJson
\*   g.search    the pairs of the search string (this.search, and what
\*               this.searchParams iterates)
\*   g.jsonFor   #jsonFor: [set, q], not set before the first read
\*   g.json      #json: the object, with its identity id (0: undefined)
\*   g.ids       the number of objects that have been made
\*   g.ret       what the last read of searchParamsJson has returned
\*   g.changes   the changes of the search string since the last read
\*   g.before    g.changes as it was at the last read
\*   g.at        the search string at the last read: [set, q]
\*   g.ops       the number of operations
\* ------------------------------------------------------------------------
MaxPairs == 2
MaxOps == 4

\* a=1, k[]=x, k=y
UrlPairs ==
    {[name |-> NameA, value |-> <<49>>], [name |-> NameKAppend, value |-> <<120>>],
     [name |-> NameK, value |-> <<121>>]}

Queries == UNION {[1..n -> UrlPairs] : n \in 0..MaxPairs}

\* parseSearchParamsJson(searchParams)
RECURSIVE ParsePairs(_, _)
ParsePairs(obj, pairs) ==
    IF pairs = << >> THEN obj
    ELSE ParsePairs(setSearchParamJson(obj, pairs[1].name, JString(pairs[1].value)).obj, Tail(pairs))

parseSearchParamsJson(searchParams) == ParsePairs(NewObject, searchParams)

\* (variant: what has been computed once is kept)
searchParamsJsonOnce(s) ==
    IF ~s.jsonFor.set
    THEN [s EXCEPT !.jsonFor = [set |-> TRUE, q |-> s.search],
                   !.json = [id |-> s.ids + 1, val |-> parseSearchParamsJson(s.search)],
                   !.ids = @ + 1]
    ELSE s

\* get searchParamsJson(): the fields after the read; the getter returns
\* this.#json
searchParamsJson(s) ==
    IF s.jsonFor # [set |-> TRUE, q |-> s.search]
    THEN [s EXCEPT !.jsonFor = [set |-> TRUE, q |-> s.search],
                   !.json = [id |-> s.ids + 1, val |-> parseSearchParamsJson(s.search)],
                   !.ids = @ + 1]
    ELSE s

InitUrl ==
    \E q \in Queries :
        /\ body = << >>
        /\ boundaryBytes = << >>
        /\ input = [search |-> q]
        /\ g = [pc |-> "url", search |-> q, jsonFor |-> [set |-> FALSE, q |-> << >>],
                json |-> [id |-> 0, val |-> Undefined], ids |-> 0,
                ret |-> [id |-> 0, val |-> Undefined], changes |-> 0, before |-> 0,
                at |-> [set |-> FALSE, q |-> << >>], ops |-> 0]
        /\ lastOp = "Init"
        /\ canon = TRUE
        /\ rq = NoRequest

Changed(s, q) == [s EXCEPT !.search = q, !.changes = @ + 1, !.ops = @ + 1]

\* url.search = q, or url.href = the URL with the search string q
SetSearch ==
    /\ g.pc = "url"
    /\ g.ops < MaxOps
    /\ \E q \in Queries, way \in {"search", "href"} :
          /\ q # g.search
          /\ g' = Changed(g, q)
          /\ lastOp' = way
    /\ UNCHANGED <<body, boundaryBytes, input, canon, rq>>

\* url.searchParams.append(name, value)
SearchParamsAppend ==
    /\ g.pc = "url"
    /\ g.ops < MaxOps
    /\ Len(g.search) < MaxPairs
    /\ \E p \in UrlPairs : g' = Changed(g, Append(g.search, p))
    /\ lastOp' = "append"
    /\ UNCHANGED <<body, boundaryBytes, input, canon, rq>>

\* url.searchParams.delete(name)
SearchParamsDelete ==
    /\ g.pc = "url"
    /\ g.ops < MaxOps
    /\ \E p \in UrlPairs :
          /\ \E i \in 1..Len(g.search) : g.search[i].name = p.name
          /\ g' = Changed(g, SelectSeq(g.search, LAMBDA e : e.name # p.name))
    /\ lastOp' = "delete"
    /\ UNCHANGED <<body, boundaryBytes, input, canon, rq>>

\* const json = url.searchParamsJson
ReadJson ==
    /\ g.pc = "url"
    /\ g.ops < MaxOps
    /\ LET s == searchParamsJson(g)
       IN  g' = [s EXCEPT !.ret = s.json, !.before = g.changes, !.changes = 0,
                          !.at = [set |-> TRUE, q |-> g.search], !.ops = @ + 1]
    /\ lastOp' = "ReadJson"
    /\ UNCHANGED <<body, boundaryBytes, input, canon, rq>>

NextUrl == SetSearch \/ SearchParamsAppend \/ SearchParamsDelete \/ ReadJson

SpecUrl == InitUrl /\ [][NextUrl]_vars

\* C26: a read of searchParamsJson returns the mapping of the search string
\* as it is at the read; a read that follows a read with no change of the
\* search string in between returns the same object; a read before which
\* the search string was changed to a string other than the one of the last
\* read returns an object that did not exist before; and a read before which
\* the changes have brought back the string of the last read returns the
\* object of that read.
C26_JsonFollowsSearch ==
    [][(lastOp' = "ReadJson") =>
          (/\ g'.ret.val = parseSearchParamsJson(g'.search)
           /\ g'.ret.id # 0
           /\ (g.at.set /\ g.changes = 0) => g'.ret.id = g.ret.id
           /\ (g.changes > 0 /\ g.at.set /\ g.at.q # g.search) => g'.ret.id > g.ids
           /\ (g.changes > 0 /\ g.at.set /\ g.at.q = g.search) => g'.ret.id = g.ret.id
           /\ ~g.at.set => g'.ret.id > g.ids)]_vars

\* A read, two changes of which the second brings back the search string of
\* the read, and a second read that returns the object of the first, which
\* is the mapping of the search string
C26_Witness ==
    /\ lastOp = "ReadJson"
    /\ g.before = 2
    /\ g.ids = 1
    /\ g.ret.id = 1
    /\ g.search = <<[name |-> NameKAppend, value |-> <<120>>], [name |-> NameA, value |-> <<49>>]>>
    /\ g.ret.val = JObject(<<NameK, NameA>>, <<JArray(<<JString(<<120>>)>>), JString(<<49>>)>>)

\* C26 as it is stated: a read returns the mapping of the search string as it
\* is at the read; a read with no change since the read before returns the
\* same object; and the first read after a change of the search string
\* returns an object that did not exist before.
C26_AsStated ==
    [][(lastOp' = "ReadJson") =>
          (/\ g'.ret.val = parseSearchParamsJson(g'.search)
           /\ (g.at.set /\ g.changes = 0) => g'.ret.id = g.ret.id
           /\ g.changes > 0 => g'.ret.id > g.ids)]_vars

\* ------------------------------------------------------------------------
\* SuperRequest: the abort signal of the request, and a second accessor call
\* after the first has given its result. The request has, besides the fields
\* of NewRequest:
\*   aborted     the signal given to the constructor has been aborted
\*   uses        the number of the accessor call that is running or has run
\*   first       the bytes that the first accessor call has delivered
\* ------------------------------------------------------------------------
InitUse ==
    /\ ParserIdle
    /\ lastOp = "Init"
    /\ \E shape \in MemoryShapes \cup StreamedShapes, type \in ContentTypes,
          n \in 0..MaxBody, aborted \in BOOLEAN :
          rq = NewRequest(shape, type, [k \in 1..n |-> k], MaxBody)
                  @@ [aborted |-> aborted, uses |-> 1, first |-> << >>]

\* controller.abort(): the constructor has passed the signal to Request
\* (super(input, init)); no accessor and no stream of the body looks at it
Abort ==
    /\ rq.st \in {"new", "open"}
    /\ ~rq.aborted
    /\ rq' = [rq EXCEPT !.aborted = TRUE]
    /\ lastOp' = "Abort"
    /\ UNCHANGED Unused

\* The first accessor call has given its result and the caller turns to the
\* request again. #bodyInit is the same object: a ReadableStream, a reader
\* or an iterable stays where the first call has left it, while a Blob or a
\* FormData gives a new stream and a body kept in memory is read from its
\* first byte (#getBodyStream makes the stream anew on every call).
CallAgain ==
    /\ rq.st = "done"
    /\ rq.uses = 1
    /\ rq' = [rq EXCEPT !.st = "new", !.uses = 2, !.first = rq.delivered,
                        !.acc = "none", !.out = "", !.delivered = << >>, !.opened = FALSE,
                        !.srcPos = IF rq.shape \in {"ReadableStream", "reader", "iterable"}
                                   THEN @ ELSE 0,
                        !.srcEnded = IF rq.shape \in {"ReadableStream", "reader", "iterable"}
                                     THEN @ ELSE FALSE,
                        !.lastChunk = 0]
    /\ lastOp' = "CallAgain"
    /\ UNCHANGED Unused

\* bodyInit.read(buffer) of a reader that has been closed (finally() of the
\* first stream has called close()): what the reader does is its own; it may
\* return null (StreamRead) or throw
SourceThrows ==
    /\ rq.st = "open"
    /\ rq.shape = "reader"
    /\ rq.srcEnded
    /\ rq' = [rq EXCEPT !.st = "failed", !.err = "source"]
    /\ lastOp' = "SourceThrows"
    /\ UNCHANGED Unused

NextUse == NextBody \/ Abort \/ CallAgain \/ SourceThrows

SpecUse == InitUse /\ [][NextUse]_vars

\* C27: when the signal of the request has been aborted, every read of the
\* stream of the body, and every call of bytes() or text() on a body kept in
\* memory, fails with CancelError.
C27_AbortFailsReads ==
    [][(rq.aborted /\ (lastOp' = "StreamRead"
                          \/ (lastOp' \in {"Bytes", "Text"} /\ rq.shape \in MemoryShapes)))
          => (rq'.st = "failed" /\ rq'.err = "CancelError")]_vars

\* C28: when the first accessor call has consumed a body (of at least one
\* byte, all of which it has delivered) given as a stream, a reader or an
\* async iterable, a second accessor call that reads the body
\* fails at once with 'body already used': it does not open a stream and
\* does not give a result.
C28_BodyAlreadyUsed ==
    (/\ rq.st # "none"
     /\ rq.uses = 2
     /\ rq.shape \in {"ReadableStream", "reader", "iterable"}
     /\ Len(rq.data) > 0
     /\ rq.first = rq.data
     /\ rq.st # "new"
     /\ ~(rq.acc = "formData" /\ rq.type = ""))
        => (rq.st = "failed" /\ rq.err = "body already used")

\* ------------------------------------------------------------------------
\* SuperCookies (super_cookies.ts). A Map is a sequence of entries with
\* different names, in the order in which the names were first set.
\*   g.orig      #orig: the cookies of the Cookie header: name, rawName, value
\*   g.cookies   the Map itself: name, value
\*   g.options   #options: name, option
\*   g.headers   the Set-Cookie headers that applyToResponse has appended:
\*               [name, value, attrs] stands for 'name=value; attr; attr...'
\*   g.ops       the number of calls of set() and delete()
\* Names and values are texts of bytes below 128.
\* ------------------------------------------------------------------------
C_SEMI == 59

MapHas(m, name) == \E k \in 1..Len(m) : m[k].name = name
MapGet(m, name) == m[CHOOSE k \in 1..Len(m) : m[k].name = name]
MapSet(m, entry) ==
    IF MapHas(m, entry.name)
    THEN [k \in 1..Len(m) |-> IF m[k].name = entry.name THEN entry ELSE m[k]]
    ELSE Append(m, entry)
MapDelete(m, name) == SelectSeq(m, LAMBDA e : e.name # name)

\* decodeURIComponent(s), for a text whose '%' are each followed by two
\* hexadecimal digits, and that has no bytes from 128 on
RECURSIVE decodeURIComponent(_)
decodeURIComponent(s) ==
    IF s = << >> THEN << >>
    ELSE IF s[1] = C_PERCENT /\ Len(s) >= 3 /\ IsHex(s[2]) /\ IsHex(s[3])
    THEN <<HexValue(s[2]) * 16 + HexValue(s[3])>> \o decodeURIComponent(SubSeq(s, 4, Len(s)))
    ELSE <<s[1]>> \o decodeURIComponent(Tail(s))

\* The two digits of %XX as encodeURIComponent writes them
HexChar(n) == IF n < 10 THEN 48 + n ELSE 55 + n

\* encodeURIComponent leaves A-Z a-z 0-9 - _ . ! ~ * ' ( ) as they are
UriUnreserved(c) ==
    \/ (c >= 65 /\ c <= 90) \/ (c >= 97 /\ c <= 122) \/ (c >= 48 /\ c <= 57)
    \/ c \in {45, 95, 46, 33, 126, 42, 39, 40, 41}

\* getCookieNameMask() and getCookieValueMask(): the bytes that are masked
COOKIE_NAME_MASK == (0..32) \cup {34, 40, 41, 44, 47} \cup (58..64) \cup {91, 92, 93, 123, 125}
COOKIE_VALUE_MASK == (0..32) \cup {34, 44, 59, 92}

\* encodeCookie(value, mask): the ranges of masked bytes go through
\* encodeURIComponent
RECURSIVE encodeCookie(_, _)
encodeCookie(value, mask) ==
    IF value = << >> THEN << >>
    ELSE (IF value[1] \in mask /\ ~UriUnreserved(value[1])
          THEN <<C_PERCENT, HexChar(value[1] \div 16), HexChar(value[1] % 16)>>
          ELSE <<value[1]>>)
            \o encodeCookie(Tail(value), mask)

\* while (cookieHeader.charCodeAt(i) == C_SPACE) i++
RECURSIVE SkipCookieSpaces(_, _)
SkipCookieSpaces(h, i) == IF At(h, i) = C_SPACE THEN SkipCookieSpaces(h, i + 1) ELSE i

\* parseCookieHeader(cookieHeader, cookiesOrig, cookies), from place i
RECURSIVE ParseCookiesFrom(_, _, _)
ParseCookiesFrom(h, i, m) ==
    LET eq    == IndexOfByte(h, Len(h), C_EQ, i)
        semi  == IndexOfByte(h, Len(h), C_SEMI, eq + 1)
        iEnd  == IF semi = -1 THEN Len(h) ELSE semi
        name  == decodeURIComponent(Sub(h, i, eq))
        value == decodeURIComponent(Sub(h, eq + 1, iEnd))
    IN  IF i >= Len(h) \/ eq = -1 THEN m
        ELSE ParseCookiesFrom(h, SkipCookieSpaces(h, iEnd + 1),
                 [orig    |-> MapSet(m.orig, [name |-> name, rawName |-> Sub(h, i, eq), value |-> value]),
                  cookies |-> MapSet(m.cookies, [name |-> name, value |-> value])])

parseCookieHeader(h) == ParseCookiesFrom(h, 0, [orig |-> << >>, cookies |-> << >>])

\* CookieOptions: maxAge (-1: not given), domain ("": not given), path
\* ("undefined": not given), secure
NoOption == [given |-> FALSE, maxAge |-> -1, domain |-> "", path |-> "undefined", secure |-> FALSE]
CookieOption(maxAge, domain, path, secure) ==
    [given |-> TRUE, maxAge |-> maxAge, domain |-> domain, path |-> path, secure |-> secure]

Past == "Expires=Sat, 01 Jan 2000 00:00:00 GMT"

\* The attributes that follow name=value (l.178-216)
CookieAttrs(value, option) ==
    IF option.given
    THEN (IF value = << >> THEN <<Past, "Max-Age=0">>
          ELSE IF option.maxAge # -1
          THEN <<"Expires=now+" \o ToString(option.maxAge) \o "s", "Max-Age=" \o ToString(option.maxAge)>>
          ELSE << >>)
         \o (IF option.domain # "" THEN <<"Domain=" \o option.domain>> ELSE << >>)
         \o (IF option.path = "undefined" THEN <<"Path=/">>
             ELSE IF option.path # "" THEN <<"Path=" \o option.path>> ELSE << >>)
         \o (IF option.secure THEN <<"Secure">> ELSE << >>)
    ELSE IF value = << >> THEN <<Past, "Max-Age=0", "Path=/">>
    ELSE << >>

\* The first loop of applyToResponse: the cookies of the Cookie header that
\* the Map has no more
RECURSIVE DeletedHeaders(_, _)
DeletedHeaders(orig, cookies) ==
    IF orig = << >> THEN << >>
    ELSE (IF ~MapHas(cookies, orig[1].name)
          THEN <<[name |-> orig[1].rawName, value |-> << >>, attrs |-> <<"Path=/", Past>>]>>
          ELSE << >>)
            \o DeletedHeaders(Tail(orig), cookies)

\* (variant: a header for every cookie of the Map)
CookieHeadersAll(name, value, orig, options) ==
    <<[name  |-> encodeCookie(name, COOKIE_NAME_MASK),
       value |-> encodeCookie(value, COOKIE_VALUE_MASK),
       attrs |-> CookieAttrs(value, IF MapHas(options, name) THEN MapGet(options, name).option
                                    ELSE NoOption)]>>

\* One turn of the second loop of applyToResponse: the headers of the cookie
\* name=value of the Map
CookieHeaders(name, value, orig, options) ==
    IF MapHas(orig, name) /\ MapGet(orig, name).value = value THEN << >>
    ELSE (IF MapHas(orig, name) /\ MapGet(orig, name).rawName # name
          THEN <<[name |-> MapGet(orig, name).rawName, value |-> << >>,
                  attrs |-> <<Past, "Max-Age=0", "Path=/">>]>>
          ELSE << >>)
         \o <<[name  |-> encodeCookie(name, COOKIE_NAME_MASK),
               value |-> encodeCookie(value, COOKIE_VALUE_MASK),
               attrs |-> CookieAttrs(value, IF MapHas(options, name) THEN MapGet(options, name).option
                                            ELSE NoOption)]>>

RECURSIVE ChangedHeaders(_, _, _)
ChangedHeaders(cookies, orig, options) ==
    IF cookies = << >> THEN << >>
    ELSE CookieHeaders(cookies[1].name, cookies[1].value, orig, options)
            \o ChangedHeaders(Tail(cookies), orig, options)

\* applyToResponse(response, cookiesOrig, cookies, options): the headers
\* that it appends
applyToResponse(orig, cookies, options) ==
    DeletedHeaders(orig, cookies) \o ChangedHeaders(cookies, orig, options)

MaxCookieOps == 2

\* '', 'a=1', 'a=1; b=2', '%61=1', 'a=; b=1'
RequestCookies ==
    {<< >>, <<97, 61, 49>>, <<97, 61, 49, 59, 32, 98, 61, 50>>, <<37, 54, 49, 61, 49>>,
     <<97, 61, 59, 32, 98, 61, 49>>}

\* a, b
CookieNames == {<<97>>, <<98>>}
\* '', '1', '2 '
CookieValues == {<< >>, <<49>>, <<50, 32>>}
SetOptions ==
    {NoOption, CookieOption(30, "", "undefined", FALSE), CookieOption(-1, "example.com", "", TRUE)}

InitCookies ==
    \E h \in RequestCookies :
        /\ body = << >>
        /\ boundaryBytes = << >>
        /\ input = [cookieHeader |-> h]
        /\ g = [pc |-> "cookies", orig |-> parseCookieHeader(h).orig,
                cookies |-> parseCookieHeader(h).cookies, options |-> << >>,
                headers |-> << >>, ops |-> 0]
        /\ lastOp = "Init"
        /\ canon = TRUE
        /\ rq = NoRequest

\* cookies.set(name, value, options)
CookieSet ==
    /\ g.pc = "cookies"
    /\ g.ops < MaxCookieOps
    /\ \E name \in CookieNames, value \in CookieValues, option \in SetOptions :
          g' = [g EXCEPT !.cookies = MapSet(@, [name |-> name, value |-> value]),
                         !.options = IF option.given
                                     THEN MapSet(@, [name |-> name, option |-> option]) ELSE @,
                         !.ops = @ + 1]
    /\ lastOp' = "CookieSet"
    /\ UNCHANGED <<body, boundaryBytes, input, canon, rq>>

\* cookies.delete(key)
CookieDelete ==
    /\ g.pc = "cookies"
    /\ g.ops < MaxCookieOps
    /\ \E name \in CookieNames :
          g' = [g EXCEPT !.cookies = MapDelete(@, name), !.options = MapDelete(@, name),
                         !.ops = @ + 1]
    /\ lastOp' = "CookieDelete"
    /\ UNCHANGED <<body, boundaryBytes, input, canon, rq>>

\* cookies.applyToResponse(response), response without Set-Cookie headers
ApplyToResponse ==
    /\ g.pc = "cookies"
    /\ g' = [g EXCEPT !.pc = "applied", !.headers = applyToResponse(g.orig, g.cookies, g.options)]
    /\ lastOp' = "ApplyToResponse"
    /\ UNCHANGED <<body, boundaryBytes, input, canon, rq>>

NextCookies == CookieSet \/ CookieDelete \/ ApplyToResponse

SpecCookies == InitCookies /\ [][NextCookies]_vars

\* The cookies of the Cookie header that the Map has no more; the cookies of
\* the Map that are new or whose value is not the one of the Cookie header;
\* and among these, those whose name was written otherwise in the header
DeletedCookies == {k \in 1..Len(g.orig) : ~MapHas(g.cookies, g.orig[k].name)}
ChangedCookies ==
    {k \in 1..Len(g.cookies) :
        ~MapHas(g.orig, g.cookies[k].name)
           \/ MapGet(g.orig, g.cookies[k].name).value # g.cookies[k].value}
RewrittenCookies ==
    {k \in ChangedCookies :
        MapHas(g.orig, g.cookies[k].name)
           /\ MapGet(g.orig, g.cookies[k].name).rawName # g.cookies[k].name}

\* The headers with the name name
HeadersOf(name) == {k \in 1..Len(g.headers) : g.headers[k].name = name}
HasAttr(h, attr) == \E k \in 1..Len(h.attrs) : h.attrs[k] = attr

\* What C29 says of the single headers: one header name=value for every new
\* or changed cookie, which has Expires in the past and Max-Age=0 when the
\* value is empty; one header with an empty value and Expires in the past
\* for every deleted cookie, under the name as the Cookie header wrote it;
\* none for a cookie whose value is unchanged
HeaderPerChange ==
    /\ \A k \in ChangedCookies :
          LET hs == HeadersOf(encodeCookie(g.cookies[k].name, COOKIE_NAME_MASK))
          IN  /\ Cardinality(hs) = 1
              /\ \A i \in hs :
                    /\ g.headers[i].value = encodeCookie(g.cookies[k].value, COOKIE_VALUE_MASK)
                    /\ g.cookies[k].value = << >>
                          => (HasAttr(g.headers[i], Past) /\ HasAttr(g.headers[i], "Max-Age=0"))
                    /\ g.cookies[k].value # << >> => ~HasAttr(g.headers[i], Past)
    /\ \A k \in DeletedCookies :
          LET hs == HeadersOf(g.orig[k].rawName)
          IN  /\ Cardinality(hs) = 1
              /\ \A i \in hs : g.headers[i].value = << >> /\ HasAttr(g.headers[i], Past)
    /\ \A k \in 1..Len(g.cookies) :
          k \notin ChangedCookies
             => /\ HeadersOf(encodeCookie(g.cookies[k].name, COOKIE_NAME_MASK)) = {}
                /\ HeadersOf(MapGet(g.orig, g.cookies[k].name).rawName) = {}

\* C29: applyToResponse appends the headers of HeaderPerChange, and besides
\* them one more for every changed cookie whose name the Cookie header wrote
\* otherwise than the Map has it (percent-encoded): a header that expires
\* the cookie of the written name, with an empty value, Expires in the past
\* and Max-Age=0, right before the header of the cookie. It appends no other
\* header.
C29_SetCookiePerChange ==
    g.pc = "applied" =>
        /\ HeaderPerChange
        /\ Len(g.headers)
              = Cardinality(DeletedCookies) + Cardinality(ChangedCookies)
                   + Cardinality(RewrittenCookies)
        /\ \A k \in RewrittenCookies :
              LET hs == HeadersOf(MapGet(g.orig, g.cookies[k].name).rawName)
              IN  /\ Cardinality(hs) = 1
                  /\ \A i \in hs :
                        /\ g.headers[i].value = << >>
                        /\ HasAttr(g.headers[i], Past) /\ HasAttr(g.headers[i], "Max-Age=0")
                        /\ i < Len(g.headers)
                        /\ g.headers[i + 1].name = encodeCookie(g.cookies[k].name, COOKIE_NAME_MASK)

\* With the Cookie header 'a=1; b=2', after a was set to the empty value
\* with an option and b was deleted: one expiring header for b, and a= with
\* Expires in the past and Max-Age=0
C29_Witness ==
    /\ g.pc = "applied"
    /\ input.cookieHeader = <<97, 61, 49, 59, 32, 98, 61, 50>>
    /\ g.headers = <<[name |-> <<98>>, value |-> << >>, attrs |-> <<"Path=/", Past>>],
                     [name |-> <<97>>, value |-> << >>, attrs |-> <<Past, "Max-Age=0", "Path=/">>]>>

\* C29 as it is stated: applyToResponse appends the headers of
\* HeaderPerChange and no other header.
C29_AsStated ==
    g.pc = "applied" =>
        /\ HeaderPerChange
        /\ Len(g.headers) = Cardinality(DeletedCookies) + Cardinality(ChangedCookies)


\* ------------------------------------------------------------------------
\* cancel() of a yielded file's stream (part_006 l.281-286)
\* ------------------------------------------------------------------------
\* The entry behind a file whose stream has not delivered the whole payload
\* (the file was cancelled: the generator does not go on otherwise) is the
\* part that follows the file in the body, with its name and value
NextPartFollows(s) ==
    \A k \in 1..(Len(s.entries) - 1) :
        (s.entries[k].isFile /\ s.entries[k].content # input.parts[k].payload)
            => /\ s.entries[k + 1].name = input.parts[k + 1].name
               /\ s.entries[k + 1].isFile = HasNonEmptyFilename(input.parts[k + 1])
               /\ ~s.entries[k + 1].isFile => s.entries[k + 1].value = input.parts[k + 1].payload

\* C30: on a well-formed body a cancel of a yielded file's stream does not
\* fail; while it awaits a read there are bytes of the body left to deliver
\* and every step of it takes more of them (so the cancel ends); the
\* generator resumed behind the cancelled file does not fail; and the entry
\* that follows a cancelled file is the next part of the body, with its own
\* name and value.
C30_CancelSkipsToNextPart ==
    [][input.wellFormed =>
         /\ (g.fop = "cancel" \/ lastOp' = "FileCancel")
               => /\ ~(g'.fstream = "cancelled" /\ g'.ferr # "")
                  /\ g.fop = "cancel" => g'.pos > g.pos
                  /\ g'.fop = "cancel" => g'.pos < Len(body)
         /\ (g.pc = "yielded" /\ g.fstream = "cancelled" /\ lastOp' = "Advance")
               => g'.pc # "failed"
         /\ NextPartFollows(g')]_vars


\* C31: on a well-formed body (the header lines of the bodies are all far
\* shorter than half the buffer), with every chunking and every view length
\* of the file's reader, the buffer management does not fail:
\* 0 <= bufferStart <= bufferEnd <= the length of the buffer in use, a read
\* that is awaited offers at least one free byte, and no copy between the
\* buffer and a view is given more bytes than fit (RangeError).
C31_BufferManagementNeverFails ==
    input.wellFormed =>
        /\ 0 <= g.bufferStart
        /\ g.bufferStart <= g.bufferEnd
        /\ g.bufferEnd <= UseBufferLen(g)
        /\ AwaitsRead(g) => ReadSpace(g) > 0
        /\ "RangeError" \notin {g.thrown, g.ferr, g.err}


\* ------------------------------------------------------------------------
\* The end of a part's payload (part_006 l.167-177)
\* ------------------------------------------------------------------------
\* CRLF "--" boundary: what ends a payload
Delimiter == CRLF \o Dashes \o boundaryBytes

\* v stands in the body between the empty line that ends a header block and
\* a boundary delimiter that directly follows a CRLF
EndsAtDelimiter(v) ==
    \E p \in 4..(Len(body) - Len(v)) :
        /\ Sub(body, p - 4, p) = CRLF \o CRLF
        /\ Sub(body, p, p + Len(v)) = v
        /\ Sub(body, p + Len(v), p + Len(v) + Len(Delimiter)) = Delimiter

\* C32: a field's value that the parser has yielded ends in the body at a
\* CRLF that is directly followed by the boundary delimiter (a body whose
\* boundary does not follow a CRLF gives no value, the parse fails); on a
\* well-formed body the value is the whole payload of its part; and the
\* bytes of a file whose stream has reported its end are the whole payload,
\* the CRLFs inside it included, only the CRLF before the delimiter left out.
C32_PayloadEndsAtCrlfBoundary ==
    \A k \in 1..Len(g.entries) :
        /\ ~g.entries[k].isFile =>
              /\ EndsAtDelimiter(g.entries[k].value)
              /\ input.wellFormed => g.entries[k].value = input.parts[k].payload
        /\ (g.entries[k].isFile /\ k = Len(g.entries) /\ g.fstream = "closed")
              => /\ EndsAtDelimiter(g.entries[k].content)
                 /\ input.wellFormed => g.entries[k].content = input.parts[k].payload


\* ------------------------------------------------------------------------
\* A body that arrives in a few large chunks: a file, a field and a second
\* file, the second file with or without the CRLF before the closing
\* delimiter. The body stream cuts the body at some of the offsets
\* input.cuts and nowhere else.
\* ------------------------------------------------------------------------
\* name="d"; filename="g", a payload of 60 bytes y without a CR
PartY == Part(<<100>>, TRUE, <<103>>, << >>, [k \in 1..60 |-> 121])

CutParts == <<PartB, PartA, PartY>>

\* The offset in the body of the first byte of the payload of part k
PayloadStart(k) == PartEnd(CutParts, TokenBY, 0, k - 1) + Len(EncodeHeaders(CutParts[k]))

CaseCuts(crlf) ==
    [body |-> Dashes \o TokenBY \o CRLF
                \o EncodeHeaders(PartB) \o PartB.payload \o CRLF \o Dashes \o TokenBY \o CRLF
                \o EncodeHeaders(PartA) \o PartA.payload \o CRLF \o Dashes \o TokenBY \o CRLF
                \o EncodeHeaders(PartY) \o PartY.payload \o (IF crlf THEN CRLF ELSE << >>)
                \o Dashes \o TokenBY \o Dashes,
     boundary |-> TokenBY,
     input |-> [parts |-> CutParts, preambleLen |-> 0, wellFormed |-> crlf,
                cuts |-> {PartEnd(CutParts, TokenBY, 0, 0), PayloadStart(1) + 2,
                          PartEnd(CutParts, TokenBY, 0, 1) + 5, PayloadStart(3) + 3,
                          PayloadStart(3) + 30}]]

InitCuts ==
    \E crlf \in BOOLEAN :
        /\ body = CaseCuts(crlf).body
        /\ boundaryBytes = CaseCuts(crlf).boundary
        /\ input = CaseCuts(crlf).input
        /\ g = GenInit
        /\ lastOp = "Init"
        /\ canon = TRUE
        /\ rq = NoRequest

\* The body stream delivers its bytes up to one of the cuts, or all that the
\* view takes, to the read that is awaited
ReadUpTo ==
    /\ AwaitsRead(g)
    /\ Remaining(g) > 0
    /\ ReadSpace(g) > 0
    /\ \E n \in {n \in 1..MinOf(Remaining(g), ReadSpace(g)) :
                    g.pos + n \in input.cuts \/ n = MinOf(Remaining(g), ReadSpace(g))} :
          LET p == Resumed(rq, ReadDone(g, SubSeq(body, g.pos + 1, g.pos + n)), FALSE)
          IN  g' = p.g /\ rq' = p.rq
    /\ lastOp' = "Read"
    /\ UNCHANGED <<body, boundaryBytes, input, canon>>

NextCuts == Advance \/ ReadUpTo \/ ReadEof \/ ReadZero \/ FileRead \/ FileCancel

SpecCuts == InitCuts /\ [][NextCuts]_vars


\* ------------------------------------------------------------------------
\* After a failure of the parse
\* ------------------------------------------------------------------------
\* The messages of the errors that tell of a malformed body
Malformations ==
    {"Invalid boundary", "Invalid header", "Invalid multipart body",
     "Incomplete multipart body", "Header is too long"}

\* The parse has failed on a malformed body: the generator has thrown, or a
\* read or a cancel of a yielded file's stream has
Broken(s) ==
    \/ s.pc = "failed" /\ s.err \in Malformations
    \/ s.fstream \in {"errored", "cancelled"} /\ s.ferr \in Malformations

\* C33: once the parse has failed on a malformed body, in the generator or
\* in the stream of a yielded file, no further entry is yielded: the entries
\* stay as many as they are, and an advance of the generator ends it (it
\* returns or throws, at once or when the read that it awaits has ended).
C33_NoEntryAfterMalformation ==
    [][Broken(g) => (/\ Len(g'.entries) = Len(g.entries)
                     /\ g'.pc # "yielded" => (g'.pc \in {"done", "failed"} \/ AwaitsRead(g')))]_vars


\* ------------------------------------------------------------------------
\* A long header line (part_006 l.91-110). The part of field a has a header
\* line "X:" and n bytes x before its Content-Disposition line; the body is
\* shorter than the buffer, and the body stream cuts it at some of the
\* offsets input.cuts, which lie around the middle of the buffer.
\* ------------------------------------------------------------------------
\* X:
StrX == <<88, C_COLON>>

\* The lengths of the header line: half the buffer, and more
LineLens ==
    {BUFFER_LEN \div 2 - 1, BUFFER_LEN \div 2, BUFFER_LEN \div 2 + 1, BUFFER_LEN \div 2 + 10,
     BUFFER_LEN \div 2 + 20}

CaseHeader(len) ==
    [body |-> FirstLine \o StrX \o [k \in 1..(len - Len(StrX)) |-> 120] \o CRLF
                \o EncodeHeaders(PartA) \o ValueAndEnd,
     boundary |-> TokenBY,
     input |-> [parts |-> <<PartA>>, preambleLen |-> 0, wellFormed |-> TRUE, lineLen |-> len,
                cuts |-> {Len(FirstLine) + BUFFER_LEN \div 2 + d : d \in {-8, -6, -4, -2, 0, 1, 2, 3, 4, 6, 8, 12, 16}}]]

InitHeader ==
    \E len \in LineLens :
        /\ body = CaseHeader(len).body
        /\ boundaryBytes = CaseHeader(len).boundary
        /\ input = CaseHeader(len).input
        /\ g = GenInit
        /\ lastOp = "Init"
        /\ canon = TRUE
        /\ rq = NoRequest

NextHeader == Advance \/ ReadUpTo \/ ReadEof

SpecHeader == InitHeader /\ [][NextHeader]_vars

\* C34: a body with a header line longer than half the buffer gives no entry
\* and does not end but with the error 'Header is too long', in whatever
\* chunks it arrives; a body with a header line of at most half the buffer
\* never fails with that error.
C34_HeaderTooLongByLength ==
    IF input.lineLen * 2 > BUFFER_LEN
    THEN /\ Len(g.entries) = 0
         /\ g.pc # "done"
         /\ g.pc = "failed" => g.err = "Header is too long"
    ELSE ~(g.pc = "failed" /\ g.err = "Header is too long")


\* ------------------------------------------------------------------------
\* Several streams of one body. The getter of body makes a new stream with
\* every call (README.md l.83-85, 119-121); the streams of a reader, and of
\* an async iterable that is its own iterator (a generator), take their bytes
\* from the same source, each where the others have left it.
\*   streams   the calls of the getter behind the first stream of the body
\* rq.lengthLimit is the counter of the stream that was made last, which is
\* the one that the consumer reads; rq.delivered are the bytes that the
\* consumer has got from the source through all the streams.
\* ------------------------------------------------------------------------
MaxStreams == 2

InitShare ==
    /\ ParserIdle
    /\ lastOp = "Init"
    /\ \E shape \in MemoryShapes \cup StreamedShapes, type \in ContentTypes,
          n \in 0..MaxBody, limit \in 0..MaxLimit :
          rq = NewRequest(shape, type, [k \in 1..n |-> k], limit) @@ [streams |-> 0]

\* get body, once more, while the source has not ended
BodyAgain ==
    /\ rq.st = "open"
    /\ rq.shape \in {"reader", "iterable"}
    /\ rq.streams < MaxStreams
    /\ rq' = [getBodyStream(rq, "body") EXCEPT !.streams = @ + 1]
    /\ lastOp' = "BodyAgain"
    /\ UNCHANGED Unused

NextShare == NextBody \/ BodyAgain

SpecShare == InitShare /\ [][NextShare]_vars

\* C35: whatever the streams through which a reader or an async iterable is
\* read, the consumer gets at most lengthLimit bytes of the source, and when
\* the source has handed out more than lengthLimit bytes the read has failed.
C35_OneAllowancePerBody ==
    rq.shape \in {"reader", "iterable"} =>
        /\ Len(rq.delivered) <= rq.limit
        /\ rq.srcPos > rq.limit => rq.st = "failed"


\* C36: in every state of a request with a multipart body, whatever the
\* calls of files(), json() and formData(), #bodyIterator is not set while
\* #bodyJson is unset: the state is one of the three that the comment of the
\* class lists (none set; both set; #bodyJson set and #bodyIterator unset).
C36_DocumentedReadingStates ==
    rq.st = "req" => ~(rq.bodyIterator /\ ~rq.bodyJson)


\* C37: at every turn of the decoding of the span [from, end) the write
\* position (start) is not ahead of the read position (i) and lies in
\* [from, end], as the returned index does; the buffer keeps its length, and
\* the bytes before from and from end on (the delimiter and what follows it)
\* are the bytes that were there before the call.
C37_DecodeStaysInsideSpan ==
    /\ g.d.from <= g.d.start
    /\ g.d.start <= g.d.i
    /\ g.d.start <= g.d.end
    /\ Len(g.d.buffer) = Len(input.prefix) + Len(body) + Len(input.suffix)
    /\ Sub(g.d.buffer, 0, g.d.from) = input.prefix
    /\ Sub(g.d.buffer, g.d.end, Len(g.d.buffer)) = input.suffix

\* The decoding has returned with the write position behind the end of the
\* span, having passed an escape and a '+', the delimiter "=a" in its place
C37_Witness ==
    /\ g.pc = "returned"
    /\ body = <<C_PLUS, C_PERCENT, C_A_LOW, 52>>
    /\ g.d.start = g.d.end - 2
    /\ Sub(g.d.buffer, g.d.end, g.d.end + 2) = <<C_EQ, C_A_LOW>>


\* ------------------------------------------------------------------------
\* setSearchParamJson with names of three segments: a[b][c][d], a[b][c][e],
\* a[b][f][], a[b][f][x], a[b][c], a[b][], a[b][1] and a[b (no ']')
\* ------------------------------------------------------------------------
MaxDeepCalls == 4

NameABCD == <<97, 91, 98, 93, 91, 99, 93, 91, 100, 93>>
NameABCE == <<97, 91, 98, 93, 91, 99, 93, 91, 101, 93>>
NameABFAppend == <<97, 91, 98, 93, 91, 102, 93, 91, 93>>
NameABFX == <<97, 91, 98, 93, 91, 102, 93, 91, 120, 93>>
NameABC == <<97, 91, 98, 93, 91, 99, 93>>
NameABUnclosed == <<97, 91, 98>>
DeepNames ==
    {NameABCD, NameABCE, NameABFAppend, NameABFX, NameABC, NameABAppend,
     NameABIndex(1), NameABUnclosed}

\* setSearchParamJson(obj, name, value) with one of the names above
SetParamDeep ==
    /\ g.pc = "json"
    /\ Len(g.calls) < MaxDeepCalls
    /\ \E name \in DeepNames :
          LET r == setSearchParamJson(g.obj, name, ParamValue(Len(g.calls) + 1))
          IN  g' = [g EXCEPT !.obj = r.obj, !.ok = r.ok, !.calls = Append(@, name)]
    /\ lastOp' = "SetParamDeep"
    /\ UNCHANGED <<body, boundaryBytes, input, canon, rq>>

NextDeep == SetParamDeep

SpecDeep == InitJson /\ [][NextDeep]_vars

\* v[key] for a key that is a text: an item of an array is found under the
\* text of its index
Lookup(v, key) ==
    IF v.kind = "array"
    THEN IF \E i \in 1..Len(v.vals) : DecimalString(i - 1) = key
         THEN v.vals[CHOOSE i \in 1..Len(v.vals) : DecimalString(i - 1) = key]
         ELSE Undefined
    ELSE IF v.kind = "object" THEN GetSub(v, StrSub(key))
    ELSE Undefined

\* The value found by following the texts of path from v
RECURSIVE Follow(_, _)
Follow(v, path) ==
    IF path = << >> THEN v ELSE Follow(Lookup(v, path[1]), Tail(path))

\* The paths from v to the strings that it holds
RECURSIVE LeafPaths(_)
LeafPaths(v) ==
    IF v.kind = "string" THEN {<< >>}
    ELSE IF v.kind = "array"
    THEN UNION {{<<DecimalString(i - 1)>> \o p : p \in LeafPaths(v.vals[i])} :
                   i \in 1..Len(v.vals)}
    ELSE IF v.kind = "object"
    THEN UNION {{<<v.keys[i]>> \o p : p \in LeafPaths(v.vals[i])} :
                   i \in 1..Len(v.keys)}
    ELSE {}

\* p is a prefix of q
IsPrefixPath(p, q) == Len(p) <= Len(q) /\ SubSeq(q, 1, Len(p)) = p

\* The path at which the value of the call that a step makes is found
\* afterwards (an empty segment stands for the place where it has appended)
NewPaths == {q \in LeafPaths(g'.obj) : Follow(g'.obj, q) = CallValue}

\* C38: a call changes only the entry at its own path: every string that was
\* stored before, at a path that is neither a prefix nor an extension of the
\* path of the call, is found after the call with the same value by following
\* the same keys (the text of the index for an item of an array that has been
\* converted to an object).
C38_AssignmentChangesOnlyItsPath ==
    [][\A p \in LeafPaths(g.obj) :
          (\A q \in NewPaths : ~IsPrefixPath(p, q) /\ ~IsPrefixPath(q, p))
             => Follow(g'.obj, p) = Follow(g.obj, p)]_vars

\* a[b][c][d]=v1, a[b][c][e]=v2, a[b][f][]=v3, a[b][f][]=v4 have given
\* {a: {b: {c: {d: v1, e: v2}, f: [v3, v4]}}} beside what the target held
C38_Witness ==
    /\ g.calls = <<NameABCD, NameABCE, NameABFAppend, NameABFAppend>>
    /\ Follow(g.obj, <<NameA>>)
          = JObject(<< <<98>> >>,
               <<JObject(<< <<99>>, <<102>> >>,
                    <<JObject(<< <<100>>, <<101>> >>, <<ParamValue(1), ParamValue(2)>>),
                      JArray(<<ParamValue(3), ParamValue(4)>>)>>)>>)
    /\ Follow(g.obj, <<NameA, <<98>>, <<102>>, <<49>> >>) = ParamValue(4)
    /\ Follow(g.obj, <<NameA, <<98>>, <<102>>, <<48>> >>) = ParamValue(3)


\* The path of the container to which a name that ends with '[]' appends
AppendNames == {NameKAppend, NameABAppend}
AppendParent(name) == IF name = NameKAppend THEN <<NameK>> ELSE <<NameA, <<98>> >>

\* C39: a call k[]=v or a[b][]=v whose container (target.k, target.a.b) is an
\* object stores the value under a key that the object did not have: the
\* object has one key more than before, and every key that it had keeps its
\* value.
C39_AppendToObjectAddsOneEntry ==
    [][(CallName \in AppendNames /\ Follow(g.obj, AppendParent(CallName)).kind = "object") =>
          LET old == Follow(g.obj, AppendParent(CallName))
              new == Follow(g'.obj, AppendParent(CallName))
          IN  /\ new.kind = "object"
              /\ Len(new.keys) = Len(old.keys) + 1
              /\ \A i \in 1..Len(old.keys) :
                    GetSub(new, StrSub(old.keys[i])) = old.vals[i]]_vars


\* The paths from v to the arrays that it holds
RECURSIVE ArrayPaths(_)
ArrayPaths(v) ==
    IF v.kind = "array"
    THEN {<< >>} \cup UNION {{<<DecimalString(i - 1)>> \o p : p \in ArrayPaths(v.vals[i])} :
                                i \in 1..Len(v.vals)}
    ELSE IF v.kind = "object"
    THEN UNION {{<<v.keys[i]>> \o p : p \in ArrayPaths(v.vals[i])} : i \in 1..Len(v.keys)}
    ELSE {}

\* The array a has a value at each of its indices
Dense(a) == \A i \in 1..Len(a.vals) : a.vals[i].kind # "undefined"

\* C40: after every call each array of the structure has a value at each of
\* the indices 0..n-1, and an array that is still an array at its place after
\* a call has its items as they were, with at most one new item, at index n.
C40_ArraysDenseAppendOnly ==
    [][/\ \A p \in ArrayPaths(g'.obj) : Dense(Follow(g'.obj, p))
       /\ \A p \in ArrayPaths(g.obj) :
             LET old == Follow(g.obj, p)
                 new == Follow(g'.obj, p)
             IN  new.kind = "array" =>
                    /\ Len(new.vals) \in {Len(old.vals), Len(old.vals) + 1}
                    /\ SubSeq(new.vals, 1, Len(old.vals)) = old.vals]_vars

\* k[]=v1, k[]=v2, k[]=v3 have grown the array at k one item at a time
C40_Witness ==
    /\ g.calls = <<NameKAppend, NameKAppend, NameKAppend>>
    /\ Follow(g.obj, <<NameK>>) = JArray(<<ParamValue(1), ParamValue(2), ParamValue(3)>>)
    /\ ArrayPaths(g.obj) = {<<NameK>>}

=========================================================================
